---- MODULE Spec2Model ----
(***************************************************************************)
(* Deployment / preview pipeline of the company-website generator:         *)
(*   - history service  (services/history.js):  getHistory, saveRecord,    *)
(*     getRecord, updateRecord, deleteRecord over data/history.json        *)
(*   - qiniu service    (services/qiniu.js):    generateHash,              *)
(*     deployToQiniu                                                       *)
(*   - API routes       (routes/api.js):        POST /api/generate         *)
(*                                                                         *)
(* Strings are sequences of one-character strings.  An undefined / absent  *)
(* string-valued property is the empty sequence.  Record ids and ISO       *)
(* timestamps are the millisecond numbers they are formatted from (decimal *)
(* and ISO formatting are injective on them).                              *)
(***************************************************************************)
EXTENDS Integers, Sequences, FiniteSets, TLC

VARIABLES
  now,     \* Date.now(), milliseconds
  env,     \* process.env as read by getQiniuConfig / generateHash
  file,    \* data/history.json: [exists, records]
  bucket,  \* keys of the objects stored in the qiniu bucket
  hs,      \* per caller: the history-service call in progress
  dp,      \* per caller: the deployToQiniu invocation in progress
  rq,      \* per caller: the POST /api/generate request being handled
  dl,      \* per caller: the DELETE /api/history/:id request being handled
  td,      \* per caller: the deleteFromQiniu invocation in progress
  pv,      \* per caller: the GET /preview/* request being handled
  rd,      \* the host's path separator and site directory, and per caller
           \* the readDirRecursive invocation in progress
  hl,      \* per caller: the last GET /api/health response
  calls    \* number of top-level operations started so far

vars == <<now, env, file, bucket, hs, dp, rq, dl, td, pv, rd, hl, calls>>

----------------------------------------------------------------------------
(* Bounds                                                                  *)

NumProcs == 2      \* concurrent callers / requests
MaxCalls == 3      \* history-service calls started in one behaviour
MaxDeploys == 2    \* deployToQiniu calls started in one behaviour
MaxRequests == 2   \* HTTP requests accepted in one behaviour
MaxTicks == 1      \* clock advances in one behaviour
MaxFiles == 5      \* files in an enumerated site directory

(* Program constants                                                       *)

HISTORY_LIMIT == 50        \* history.slice(0, 50)
HASH_LENGTH == 8           \* hash.substring(0, 8)

Procs == 1..NumProcs
T0 == 1000                 \* clock value when the behaviour starts
TickMs == 1000             \* clock granularity of the model

----------------------------------------------------------------------------
(* Strings                                                                 *)

Alphabet ==
  <<"a","b","c","d","e","f","g","h","i","j","k","l","m","n","o","p","q","r",
    "s","t","u","v","w","x","y","z","A","B","C","I","0","1","2","3","4","5",
    "6","7","8","9","-",".","/",":","?","&","=","_","S">>

CharCodes ==
  [ c \in { Alphabet[i] : i \in 1..Len(Alphabet) } |->
      CHOOSE i \in 1..Len(Alphabet) : Alphabet[i] = c ]

CharCode(c) == CharCodes[c]

HexDigit == <<"0","1","2","3","4","5","6","7","8","9","a","b","c","d","e","f">>

RECURSIVE ToHex(_, _)
\* the low `len` hexadecimal digits of n, most significant first
ToHex(n, len) ==
  IF len = 0 THEN <<>>
  ELSE Append(ToHex(n \div 16, len - 1), HexDigit[(n % 16) + 1])

RECURSIVE ToDec(_)
\* decimal digits of a natural number
ToDec(n) ==
  IF n < 10 THEN <<HexDigit[n + 1]>>
  ELSE Append(ToDec(n \div 10), HexDigit[(n % 10) + 1])

Min(a, b) == IF a < b THEN a ELSE b

----------------------------------------------------------------------------
(* History service                                                         *)

NoKey == 0 - 1             \* a property the caller's object does not carry
Undefined == <<>>          \* an undefined string-valued property

NameA == <<"A","c">>
NameB == <<"A","c","I">>
NameC == <<"B",".","c">>

\* a stored history entry
Entry(id, name, target, previewUrl, indexUrl, qiniuDir, createdAt, updatedAt) ==
  [ id |-> id, companyName |-> name, companyInfo |-> [name |-> name],
    deployTarget |-> target, previewUrl |-> previewUrl, indexUrl |-> indexUrl,
    qiniuDir |-> qiniuDir, createdAt |-> createdAt, updatedAt |-> updatedAt ]

NoEntry == Entry(NoKey, Undefined, "none", Undefined, Undefined, Undefined, 0, 0)

\* getHistory: the parsed file, or [] when reading or parsing it throws
getHistory(f) == IF f.exists THEN f.records ELSE <<>>

\* the object saveRecord puts in front: { id: record.id || now, ...record,
\* createdAt: record.createdAt || now, updatedAt: now }.  The spread comes
\* after the id default, so an id property the caller passes always wins.
NewEntry(record, t) ==
  [ record EXCEPT !.id = IF record.id = NoKey THEN t ELSE record.id,
                  !.createdAt = IF record.createdAt = 0 THEN t ELSE record.createdAt,
                  !.updatedAt = t ]

Unshift(history, e) == <<e>> \o history

Slice(history, n) == SubSeq(history, 1, Min(n, Len(history)))

\* saveRecord without the slice(0, 50)
saveRecordList_NoTrim(history, record, t) == Unshift(history, NewEntry(record, t))

\* saveRecord, from the history read to the list handed to writeFile
saveRecordList(history, record, t) ==
  Slice(Unshift(history, NewEntry(record, t)), HISTORY_LIMIT)

\* history.findIndex(r => r.id === id); 0 stands for JavaScript's -1
FindIndex(history, id) ==
  IF \E i \in 1..Len(history) : history[i].id = id
  THEN CHOOSE i \in 1..Len(history) :
         /\ history[i].id = id
         /\ \A j \in 1..(i - 1) : history[j].id # id
  ELSE 0

\* { ...history[index], ...updates, updatedAt: now }
Merge(entry, updates, t) ==
  [ f \in DOMAIN entry |->
      IF f = "updatedAt" THEN t
      ELSE IF f \in DOMAIN updates THEN updates[f] ELSE entry[f] ]

\* updateRecord, the list handed to writeFile when the id was found
updateRecordList(history, id, updates, t) ==
  [ history EXCEPT ![FindIndex(history, id)] =
      Merge(history[FindIndex(history, id)], updates, t) ]

\* a filter with the comparison inverted
KeepOther_Inverted(id, r) == r.id = id

KeepOther(id, r) == r.id # id

\* deleteRecord: history.filter(r => r.id !== id)
deleteRecordList(history, id) == SelectSeq(history, LAMBDA r : KeepOther(id, r))

IdsOf(history) == { history[i].id : i \in 1..Len(history) }

\* one history-service call: its position, arguments, locals and result
HsIdle ==
  [ pc |-> "idle", op |-> "none", id |-> NoKey, record |-> NoEntry,
    updates |-> <<>>, history |-> <<>>, out |-> <<>>, at |-> 0,
    ret |-> [kind |-> "pending", list |-> <<>>, entry |-> NoEntry] ]

HsCall(op, id, record, updates) ==
  [ HsIdle EXCEPT !.pc = "getHistory", !.op = op, !.id = id,
                  !.record = record, !.updates = updates ]

Ret(kind, list, entry) == [kind |-> kind, list |-> list, entry |-> entry]

\* the code of each function between `await getHistory()` and its next await
AfterGetHistory(c, history, t) ==
  LET base == [c EXCEPT !.history = history, !.at = t] IN
  CASE c.op = "saveRecord" ->
         [base EXCEPT !.pc = "writeFile",
                      !.out = saveRecordList(history, c.record, t)]
    [] c.op = "getRecord" ->
         [base EXCEPT !.pc = "done",
                      !.ret = IF FindIndex(history, c.id) = 0
                              THEN Ret("undefined", <<>>, NoEntry)
                              ELSE Ret("entry", <<>>, history[FindIndex(history, c.id)])]
    [] c.op = "updateRecord" ->
         IF FindIndex(history, c.id) = 0
         THEN [base EXCEPT !.pc = "done", !.ret = Ret("null", <<>>, NoEntry)]
         ELSE [base EXCEPT !.pc = "writeFile",
                           !.out = updateRecordList(history, c.id, c.updates, t)]
    [] c.op = "deleteRecord" ->
         [base EXCEPT !.pc = "writeFile", !.out = deleteRecordList(history, c.id)]
    [] c.op = "getHistory" ->
         [base EXCEPT !.pc = "done", !.ret = Ret("list", history, NoEntry)]

\* the value each writing function returns after `await fs.writeFile(...)`
AfterWriteFile(c) ==
  [ c EXCEPT !.pc = "done",
             !.ret = IF c.op = "updateRecord"
                     THEN Ret("entry", <<>>, c.out[FindIndex(c.history, c.id)])
                     ELSE Ret("list", c.out, NoEntry) ]

\* a write that re-applies the call to the file as it is when written
Written_Reread(c, f) ==
  [exists |-> TRUE, records |-> AfterGetHistory(c, getHistory(f), c.at).out]

\* what fs.writeFile leaves on disk
Written(c, f) == [exists |-> TRUE, records |-> c.out]

\* await getHistory() resolves: the file is read and the caller runs on
HGetHistory(p) ==
  /\ hs[p].pc = "getHistory"
  /\ hs' = [hs EXCEPT ![p] = AfterGetHistory(hs[p], getHistory(file), now)]
  /\ UNCHANGED <<rd, hl, now, env, file, bucket, dp, rq, calls, dl, td, pv>>

\* await fs.writeFile(HISTORY_FILE, ...) resolves: the whole file is replaced
HWriteFile(p) ==
  /\ hs[p].pc = "writeFile"
  /\ file' = Written(hs[p], file)
  /\ hs' = [hs EXCEPT ![p] = AfterWriteFile(hs[p])]
  /\ UNCHANGED <<rd, hl, now, env, bucket, dp, rq, calls, dl, td, pv>>

\* the clock advances
Tick ==
  /\ now < T0 + MaxTicks * TickMs
  /\ now' = now + TickMs
  /\ UNCHANGED <<rd, hl, env, file, bucket, hs, dp, rq, calls, dl, td, pv>>

----------------------------------------------------------------------------
(* Qiniu service: configuration, naming, signing                           *)

S_dash == <<"-">>
S_slash == <<"/">>
S_dot == <<".">>
S_colon == <<":">>
S_https == <<"h","t","t","p","s",":","/","/">>
S_http == <<"h","t","t","p",":","/","/">>
S_qiniucs == <<".","q","i","n","i","u","c","s",".","c","o","m">>
S_indexHtml == <<"i","n","d","e","x",".","h","t","m","l">>
S_preview == <<"/","p","r","e","v","i","e","w","/">>
S_e == <<"?","e","=">>
S_token == <<"&","t","o","k","e","n","=">>
S_z0 == <<"z","0">>
S_defaultSecret == <<"d","e","f","a","u","l","t","-","s","e","c","r","e","t">>
S_localhost ==
  <<"h","t","t","p",":","/","/","l","o","c","a","l","h","o","s","t",":","3","0","0","0">>

AccessKeyValue == <<"a","k">>
SecretKeyValue == <<"s","k">>
BucketValue == <<"b","k","t">>
DomainValue == <<"c","d","n",".","c","n">>
HashSecretValue == <<"s","2">>

\* truthiness of a string-valued property
Truthy(v) == v # Undefined

\* a || b on strings
OrElse(a, b) == IF Truthy(a) THEN a ELSE b

RECURSIVE MixRange(_, _, _)
\* a 16-bit digest of s[lo..hi], combined from the digests of its halves
MixRange(s, lo, hi) ==
  IF lo > hi THEN 0
  ELSE IF lo = hi THEN CharCode(s[lo])
  ELSE LET mid == (lo + hi) \div 2 IN
       (MixRange(s, lo, mid) * 257 + MixRange(s, mid + 1, hi) * 31 + (hi - lo)) % 65536

\* a 16-bit digest of a string
Digest(s) == MixRange(s, 1, Len(s))

\* one 16-bit lane of a longer digest
Lane(m, k) == (m * 33 + k * 7) % 65536

\* crypto.createHash('md5').update(s).digest('hex'): 32 hexadecimal digits
\* that depend on s alone (the digest itself is abstracted by Digest)
Md5Hex(s) ==
  LET m == Digest(s) IN
  ToHex(Lane(m, 5381), 4) \o ToHex(Lane(m, 177), 4) \o ToHex(Lane(m, 31), 4)
    \o ToHex(Lane(m, 7), 4) \o ToHex(Lane(m, 99), 4) \o ToHex(Lane(m, 1), 4)
    \o ToHex(Lane(m, 613), 4) \o ToHex(Lane(m, 4001), 4)

\* a token drawn anew for every call, as generateRandomCode did
generateHash_Random(companyName, e) ==
  SubSeq(Md5Hex(companyName \o S_dash \o ToDec(now + calls)), 1, HASH_LENGTH)

\* generateHash(companyName)
generateHash(companyName, e) ==
  SubSeq(Md5Hex(companyName \o S_dash \o OrElse(e.HASH_SECRET, S_defaultSecret)),
         1, HASH_LENGTH)

\* getQiniuConfig()
getQiniuConfig(e) ==
  [ accessKey |-> e.QINIU_ACCESS_KEY, secretKey |-> e.QINIU_SECRET_KEY,
    bucket |-> e.QINIU_BUCKET, zone |-> OrElse(e.QINIU_ZONE, S_z0),
    domain |-> e.QINIU_DOMAIN ]

\* process.env: every combination of the required settings, with the
\* optional ones (custom domain, naming salt) all unset or all set
Envs ==
  { [ QINIU_ACCESS_KEY |-> ak, QINIU_SECRET_KEY |-> sk, QINIU_BUCKET |-> b,
      QINIU_ZONE |-> Undefined,
      QINIU_DOMAIN |-> IF opt THEN DomainValue ELSE Undefined,
      HASH_SECRET |-> IF opt THEN HashSecretValue ELSE Undefined,
      SERVER_URL |-> Undefined ] :
      ak \in {Undefined, AccessKeyValue}, sk \in {Undefined, SecretKeyValue},
      b \in {Undefined, BucketValue}, opt \in BOOLEAN }

EnvFull ==
  [ QINIU_ACCESS_KEY |-> AccessKeyValue, QINIU_SECRET_KEY |-> SecretKeyValue,
    QINIU_BUCKET |-> BucketValue, QINIU_ZONE |-> Undefined,
    QINIU_DOMAIN |-> DomainValue, HASH_SECRET |-> Undefined,
    SERVER_URL |-> Undefined ]

\* `${companyInfo.name}-${hashCode}`
DirName(name, e) == name \o S_dash \o generateHash(name, e)

\* first position at which pat occurs in s, 0 when it does not
IndexOf(s, pat) ==
  LET hits == { i \in 1..(Len(s) - Len(pat) + 1) :
                  \A k \in 1..Len(pat) : s[i + k - 1] = pat[k] } IN
  IF hits = {} THEN 0 ELSE CHOOSE i \in hits : \A j \in hits : i <= j

\* s.replace(pat, rep) with a string pattern: the first occurrence only
Replace(s, pat, rep) ==
  LET i == IndexOf(s, pat) IN
  IF i = 0 THEN s
  ELSE SubSeq(s, 1, i - 1) \o rep \o SubSeq(s, i + Len(pat), Len(s))

\* the string the signature is taken over: the url with its expiry
StringToSign(url, deadline) == url \o S_e \o ToDec(deadline)

\* bucketManager.privateDownloadUrl(url, deadline): the url, its expiry and
\* accessKey:signature, the signature taken over the url with its expiry
privateDownloadUrl(url, deadline, accessKey, secretKey) ==
  LET toSign == StringToSign(url, deadline)
      m == Digest(toSign \o secretKey) IN
  toSign \o S_token \o accessKey \o S_colon
         \o ToHex(Lane(m, 5381), 4) \o ToHex(Lane(m, 177), 4)

DefaultDomain(config) == config.bucket \o S_dot \o config.zone \o S_qiniucs

YEAR_SECONDS == 31536000      \* 3600 * 24 * 365

\* the object deployToQiniu returns after its upload loop, at time t
DeployResult(dirName, e, t, uploadedCount, failedCount) ==
  LET config == getQiniuConfig(e)
      defaultDomain == DefaultDomain(config)
      deadline == (t \div 1000) + YEAR_SECONDS
      originUrl == S_http \o defaultDomain \o S_slash \o dirName \o S_slash \o S_indexHtml
      signedUrl == privateDownloadUrl(originUrl, deadline,
                                      config.accessKey, config.secretKey)
  IN
  [ success |-> TRUE,
    dirName |-> dirName,
    baseUrl |-> S_https \o OrElse(config.domain, defaultDomain) \o S_slash \o dirName,
    indexUrl |-> IF Truthy(config.domain)
                 THEN Replace(signedUrl, defaultDomain, config.domain)
                 ELSE signedUrl,
    previewUrl |-> OrElse(e.SERVER_URL, S_localhost) \o S_preview \o dirName \o S_slash,
    uploadedCount |-> uploadedCount,
    failedCount |-> failedCount ]

NoResult ==
  [ success |-> FALSE, dirName |-> Undefined, baseUrl |-> Undefined,
    indexUrl |-> Undefined, previewUrl |-> Undefined,
    uploadedCount |-> 0, failedCount |-> 0 ]

----------------------------------------------------------------------------
(* Qiniu service: deployToQiniu                                            *)

S_css == <<"c","s","s","/","s","t","y","l","e",".","c","s","s">>
S_js == <<"j","s","/","m","a","i","n",".","j","s">>

\* relativePath of the i-th entry readDirRecursive returns for the site
RelativePath(i) ==
  IF i = 1 THEN S_indexHtml
  ELSE IF i = 2 THEN S_css
  ELSE IF i = 3 THEN S_js
  ELSE <<"p">> \o ToDec(i) \o <<".","j","s">>

\* `${dirName}/${file.relativePath}`
RemotePath(dirName, i) == dirName \o S_slash \o RelativePath(i)

\* one deployToQiniu invocation: position, locals, and what it has done
DpIdle ==
  [ pc |-> "idle", name |-> Undefined, dirName |-> Undefined,
    uploadToken |-> FALSE, enumerated |-> FALSE, nfiles |-> 0, i |-> 0,
    inflight |-> {}, attempts |-> <<>>, failed |-> {},
    uploadedCount |-> 0, failedCount |-> 0,
    outcome |-> "pending", error |-> "none", result |-> NoResult ]

\* deployToQiniu without the bucket check
DeployBegin_NoBucketCheck(name, e) ==
  LET config == getQiniuConfig(e) IN
  IF ~Truthy(config.accessKey) \/ ~Truthy(config.secretKey)
  THEN [DpIdle EXCEPT !.pc = "done", !.name = name,
                      !.outcome = "threw", !.error = "NO_ACCESS_OR_SECRET_KEY"]
  ELSE [DpIdle EXCEPT !.pc = "readDir", !.name = name,
                      !.dirName = DirName(name, e), !.uploadToken = TRUE]

\* deployToQiniu up to `await readDirRecursive(...)`: the configuration is
\* validated, the directory name resolved, the upload credential created
DeployBegin(name, e) ==
  LET config == getQiniuConfig(e) IN
  IF ~Truthy(config.accessKey) \/ ~Truthy(config.secretKey)
  THEN [DpIdle EXCEPT !.pc = "done", !.name = name,
                      !.outcome = "threw", !.error = "NO_ACCESS_OR_SECRET_KEY"]
  ELSE IF ~Truthy(config.bucket)
  THEN [DpIdle EXCEPT !.pc = "done", !.name = name,
                      !.outcome = "threw", !.error = "NO_BUCKET"]
  ELSE [DpIdle EXCEPT !.pc = "readDir", !.name = name,
                      !.dirName = DirName(name, e), !.uploadToken = TRUE]

\* a deploy that rejects when every file of a non-empty batch failed
DeployFinish_HardFail(d, e, t) ==
  IF d.uploadedCount = 0 /\ d.failedCount > 0
  THEN [d EXCEPT !.pc = "done", !.outcome = "threw", !.error = "ALL_FAILED"]
  ELSE [ d EXCEPT !.pc = "done", !.outcome = "returned",
                  !.result = DeployResult(d.dirName, e, t, d.uploadedCount,
                                          d.failedCount) ]

\* the code after the upload loop: the result is built and returned
DeployFinish(d, e, t) ==
  [ d EXCEPT !.pc = "done", !.outcome = "returned",
             !.result = DeployResult(d.dirName, e, t, d.uploadedCount, d.failedCount) ]

\* the loop moves to its next file, or ends
NextFile(d, e, t) ==
  IF d.i < d.nfiles
  THEN [d EXCEPT !.pc = "readFile", !.i = d.i + 1,
                 !.attempts = Append(d.attempts, d.i + 1)]
  ELSE DeployFinish(d, e, t)

\* an upload loop without its try/catch: the first failure rejects the call
FileFailed_Rethrow(d, e, t) ==
  [d EXCEPT !.pc = "done", !.outcome = "threw", !.error = "UPLOAD",
            !.failed = d.failed \cup {d.i}, !.inflight = {}]

\* an upload loop that stops at the first failure
FileFailed_Break(d, e, t) ==
  DeployFinish([d EXCEPT !.failedCount = d.failedCount + 1,
                         !.failed = d.failed \cup {d.i}, !.inflight = {}], e, t)

\* catch (error) { failedCount++ }
FileFailed(d, e, t) ==
  NextFile([d EXCEPT !.failedCount = d.failedCount + 1,
                     !.failed = d.failed \cup {d.i}, !.inflight = {}], e, t)

\* uploadedCount++
FileUploaded(d, e, t) ==
  NextFile([d EXCEPT !.uploadedCount = d.uploadedCount + 1, !.inflight = {}], e, t)

\* readDirRecursive resolved with n files: the loop starts
Enumerated(d, n, e, t) ==
  NextFile([d EXCEPT !.enumerated = TRUE, !.nfiles = n, !.i = 0], e, t)

\* readDirRecursive rejected: deployToQiniu rejects with the same error
EnumerationFailed(d) ==
  [d EXCEPT !.pc = "done", !.outcome = "threw", !.error = "READDIR"]

DeployStep(p, d) ==
  /\ dp' = [dp EXCEPT ![p] = d]
  /\ UNCHANGED <<rd, hl, now, env, file, bucket, hs, rq, calls, dl, td, pv>>

\* numbers of files in the site directories handed to deployToQiniu
DirSizes == {0, MaxFiles}

\* await readDirRecursive(sourceDir, sourceDir) settles, for a source
\* directory holding one of the given numbers of files
DeployReadDir(p, sizes) ==
  /\ dp[p].pc = "readDir"
  /\ \/ \E n \in sizes : DeployStep(p, Enumerated(dp[p], n, env, now))
     \/ DeployStep(p, EnumerationFailed(dp[p]))

\* await fs.readFile(file.path) settles; on success formUploader.put is issued
DeployReadFile(p) ==
  /\ dp[p].pc = "readFile"
  /\ \/ DeployStep(p, [dp[p] EXCEPT !.pc = "put", !.inflight = {dp[p].i}])
     \/ DeployStep(p, FileFailed(dp[p], env, now))

\* the callback of formUploader.put runs
DeployPut(p) ==
  /\ dp[p].pc = "put"
  /\ \/ /\ dp' = [dp EXCEPT ![p] = FileUploaded(dp[p], env, now)]
        /\ bucket' = bucket \cup {RemotePath(dp[p].dirName, dp[p].i)}
        /\ UNCHANGED <<rd, hl, now, env, file, hs, rq, calls, dl, td, pv>>
     \/ DeployStep(p, FileFailed(dp[p], env, now))

\* one deleteFromQiniu invocation: position, argument, how the listing was
\* answered ("error", "status" other than 200, "empty", "items"), the listed
\* keys, the batch calls issued, and how it settled
TdIdle ==
  [ pc |-> "idle", dirName |-> Undefined, listing |-> "none", items |-> {},
    batches |-> 0, outcome |-> "pending", error |-> "none",
    result |-> [success |-> FALSE, deletedCount |-> NoKey, totalCount |-> NoKey] ]

\* one DELETE /api/history/:id handler: position, req.params.id, the record
\* found, the teardown calls made so far, the response status
DlIdle ==
  [ pc |-> "idle", id |-> NoKey, record |-> NoEntry, found |-> FALSE,
    teardowns |-> <<>>, status |-> 0 ]

\* one GET /preview/* handler: position, req.params.path, locals (at is the
\* Date.now() the deadline is taken from, signed the string the signature
\* covers), response
PvIdle ==
  [ pc |-> "idle", path |-> Undefined, fileKey |-> Undefined, at |-> 0,
    signed |-> Undefined, signedUrl |-> Undefined,
    upstream |-> 0, upstreamType |-> "none",
    failed |-> FALSE,
    res |-> [status |-> 0, contentType |-> "none", body |-> "none",
             url |-> Undefined, sent |-> 0] ]

\* one readDirRecursive invocation: position, the deploy service it belongs
\* to, the frames of the nested calls (innermost last), and what it returned
RunIdle ==
  [ pc |-> "idle", service |-> "none", stack |-> <<>>, files |-> <<>>,
    outcome |-> "pending" ]

\* a host on which no directory is enumerated
RdNone == [sep |-> <<"/">>, tree |-> <<>>, run |-> [p \in Procs |-> RunIdle]]

\* no health response yet
HlIdle ==
  [ answered |-> FALSE, timestamp |-> 0,
    qiniu |-> [accessKey |-> FALSE, secretKey |-> FALSE, bucket |-> FALSE,
               domain |-> FALSE, configured |-> FALSE] ]

\* a caller starts its next operation once the previous one has settled; the
\* settled call stays visible in hs[p] until then
Free(p) ==
  /\ rd.run[p].pc \in {"idle", "done"}
  /\ hs[p].pc \in {"idle", "done"}
  /\ dp[p].pc \in {"idle", "done"}
  /\ rq[p].pc \in {"idle", "done"}
  /\ dl[p].pc \in {"idle", "done"}
  /\ td[p].pc \in {"idle", "done"}
  /\ pv[p].pc \in {"idle", "done"}

----------------------------------------------------------------------------
(* Qiniu service: deleteFromQiniu                                          *)

\* the keys one listPrefix answer carries: the backend's page size
PageSize == 2

StartsWith(s, pre) == Len(s) >= Len(pre) /\ SubSeq(s, 1, Len(pre)) = pre

\* the objects a listing with { prefix: `${dirName}/` } ranges over
UnderPrefix(keys, dirName) == { k \in keys : StartsWith(k, dirName \o S_slash) }

\* the item sets one listPrefix answer can carry: all keys under the prefix
\* when they fit one page, else one page of them (with a marker for the rest)
ListedPages(keys, dirName) ==
  LET all == UnderPrefix(keys, dirName) IN
  IF Cardinality(all) <= PageSize THEN {all}
  ELSE { page \in SUBSET all : Cardinality(page) = PageSize }

TdReturn(t, result) == [t EXCEPT !.pc = "done", !.outcome = "returned", !.result = result]

TdThrow(t, error) == [t EXCEPT !.pc = "done", !.outcome = "threw", !.error = error]

\* resolve({ success: true, message: ... }): no counts in the result
TdMessageOnly == [success |-> TRUE, deletedCount |-> NoKey, totalCount |-> NoKey]

\* deleteFromQiniu up to the listPrefix call
TeardownBegin(dirName, e) ==
  LET config == getQiniuConfig(e)
      t == [TdIdle EXCEPT !.dirName = dirName] IN
  IF ~Truthy(config.accessKey) \/ ~Truthy(config.secretKey) \/ ~Truthy(config.bucket)
  THEN TdThrow(t, "CONFIG_INCOMPLETE")
  ELSE [t EXCEPT !.pc = "list"]

\* the listPrefix callback with respInfo.statusCode 200
TeardownListed(t, items) ==
  IF items = {}
  THEN TdReturn([t EXCEPT !.listing = "empty"], TdMessageOnly)
  ELSE [t EXCEPT !.pc = "batch", !.listing = "items", !.items = items,
                 !.batches = t.batches + 1]

\* a count of every operation of the batch
SuccessCount_All(items, deleted) == Cardinality(items)

\* respBody2.filter(r => r.code === 200).length
SuccessCount(items, deleted) == Cardinality(deleted)

\* the batch callback without err2
TeardownBatched(t, deleted) ==
  TdReturn(t, [success |-> TRUE, deletedCount |-> SuccessCount(t.items, deleted),
               totalCount |-> Cardinality(t.items)])

\* the listPrefix callback runs
TeardownList(p) ==
  /\ td[p].pc = "list"
  /\ \/ td' = [td EXCEPT ![p] = TdThrow([td[p] EXCEPT !.listing = "error"], "LIST")]
     \/ td' = [td EXCEPT ![p] =
                 TdReturn([td[p] EXCEPT !.listing = "status"], TdMessageOnly)]
     \/ \E page \in ListedPages(bucket, td[p].dirName) :
          td' = [td EXCEPT ![p] =
                   TeardownListed(td[p], page)]
  /\ UNCHANGED <<rd, hl, now, env, file, bucket, hs, dp, rq, dl, pv, calls>>

\* the batch callback runs: the backend deleted some of the keys (code 200)
\* and refused the others, or the call failed as a whole
TeardownBatch(p) ==
  /\ td[p].pc = "batch"
  /\ \/ /\ td' = [td EXCEPT ![p] = TdThrow(td[p], "BATCH")]
        /\ UNCHANGED bucket
     \/ \E deleted \in SUBSET (td[p].items \cap bucket) :
          /\ bucket' = bucket \ deleted
          /\ td' = [td EXCEPT ![p] = TeardownBatched(td[p], deleted)]
  /\ UNCHANGED <<rd, hl, now, env, file, hs, dp, rq, dl, pv, calls>>

----------------------------------------------------------------------------
(* API routes: POST /api/generate                                          *)

NoResponse ==
  [ status |-> 0, isExisting |-> FALSE, id |-> NoKey, companyName |-> Undefined,
    previewUrl |-> Undefined, indexUrl |-> Undefined, qiniuDir |-> Undefined,
    dirName |-> Undefined ]

\* one request handler: position, request body, locals, calls made, response
RqIdle ==
  [ pc |-> "idle", companyName |-> Undefined, deployTarget |-> "none",
    forceRegenerate |-> FALSE, name |-> Undefined, deployResult |-> NoResult,
    recordId |-> NoKey, did |-> {}, res |-> NoResponse ]

\* res.status(code).json({ success: false, ... })
Failure(r, code) == [r EXCEPT !.pc = "done", !.res = [NoResponse EXCEPT !.status = code]]

\* a lookup by company name alone
FindExisting_AnyTarget(history, companyName) ==
  LET hits == { i \in 1..Len(history) : history[i].companyName = companyName } IN
  IF hits = {} THEN 0 ELSE CHOOSE i \in hits : \A j \in hits : i <= j

\* existingHistory.find(h => h.companyName === companyName &&
\*                           h.deployTarget === 'qiniu'); 0 when there is none
FindExisting(history, companyName) ==
  LET hits == { i \in 1..Len(history) :
                  /\ history[i].companyName = companyName
                  /\ history[i].deployTarget = "qiniu" } IN
  IF hits = {} THEN 0 ELSE CHOOSE i \in hits : \A j \in hits : i <= j

\* the response of the skip-regeneration path
ExistingResponse(existing) ==
  [ NoResponse EXCEPT !.status = 200, !.isExisting = TRUE, !.id = existing.id,
                      !.companyName = existing.companyName,
                      !.previewUrl = existing.previewUrl,
                      !.indexUrl = existing.indexUrl,
                      !.qiniuDir = existing.qiniuDir ]

\* the handler after `await historyService.getHistory()`
AfterExistingCheck(r, history) ==
  LET i == FindExisting(history, r.companyName) IN
  IF i # 0 /\ Truthy(history[i].previewUrl)
  THEN [r EXCEPT !.pc = "done", !.res = ExistingResponse(history[i])]
  ELSE [r EXCEPT !.pc = "extract", !.did = r.did \cup {"extract"}]

\* companyInfo.name as extractCompanyInfo can resolve it: the requested name
\* (mock data, or a reply that is not JSON), or the name a JSON reply carries
ExtractedNames(companyName) == {companyName, NameB}

\* the record the handler hands to saveRecord
GeneratedRecord(r, id) ==
  Entry(id, r.name, r.deployTarget, r.deployResult.previewUrl,
        r.deployResult.indexUrl, r.deployResult.dirName, 0, 0)

\* the response after the record is saved
GeneratedResponse(r) ==
  [ NoResponse EXCEPT !.status = 200, !.id = r.recordId, !.companyName = r.name,
                      !.previewUrl = r.deployResult.previewUrl,
                      !.indexUrl = r.deployResult.indexUrl,
                      !.dirName = r.deployResult.dirName ]

RequestNames == {NameA}

\* POST /api/generate arrives, its forceRegenerate being one of the given
\* values; the handler runs to its first await
GenerateRequestWith(p, forces) ==
  \E companyName \in RequestNames \cup {Undefined},
     deployTarget \in {"none", "github", "qiniu"},
     forceRegenerate \in forces :
    LET r == [RqIdle EXCEPT !.companyName = companyName,
                            !.deployTarget = deployTarget,
                            !.forceRegenerate = forceRegenerate] IN
    /\ Free(p)
    /\ calls < MaxRequests
    /\ calls' = calls + 1
    /\ dp' = [dp EXCEPT ![p] = DpIdle]
    /\ IF ~Truthy(companyName)
       THEN /\ rq' = [rq EXCEPT ![p] = Failure(r, 400)]
            /\ hs' = [hs EXCEPT ![p] = HsIdle]
       ELSE IF ~forceRegenerate /\ deployTarget = "qiniu"
       THEN /\ rq' = [rq EXCEPT ![p] = [r EXCEPT !.pc = "checkExisting"]]
            /\ hs' = [hs EXCEPT ![p] = HsCall("getHistory", NoKey, NoEntry, <<>>)]
       ELSE /\ rq' = [rq EXCEPT ![p] = [r EXCEPT !.pc = "extract", !.did = {"extract"}]]
            /\ hs' = [hs EXCEPT ![p] = HsIdle]
    /\ UNCHANGED <<rd, hl, now, env, file, bucket, dl, td, pv>>

GenerateRequest(p) == GenerateRequestWith(p, BOOLEAN)

\* await historyService.getHistory() has resolved
GenerateCheckExisting(p) ==
  /\ rq[p].pc = "checkExisting"
  /\ hs[p].pc = "done"
  /\ rq' = [rq EXCEPT ![p] = AfterExistingCheck(rq[p], hs[p].ret.list)]
  /\ hs' = [hs EXCEPT ![p] = HsIdle]
  /\ UNCHANGED <<rd, hl, now, env, file, bucket, dp, calls, dl, td, pv>>

\* await extractorService.extractCompanyInfo(companyName) resolves (it
\* catches its own errors); generatorService.generateWebsite is called
GenerateExtract(p) ==
  /\ rq[p].pc = "extract"
  /\ \E name \in ExtractedNames(rq[p].companyName) :
       rq' = [rq EXCEPT ![p] = [rq[p] EXCEPT !.pc = "generate", !.name = name,
                                             !.did = rq[p].did \cup {"generate"}]]
  /\ UNCHANGED <<rd, hl, now, env, file, bucket, hs, dp, calls, dl, td, pv>>

\* the handler calls historyService.saveRecord with a fresh recordId
SaveGenerated(p, r) ==
  /\ rq' = [rq EXCEPT ![p] = [r EXCEPT !.pc = "saveRecord", !.recordId = now,
                                       !.did = r.did \cup {"save"}]]
  /\ hs' = [hs EXCEPT ![p] = HsCall("saveRecord", NoKey, GeneratedRecord(r, now), <<>>)]

\* await generatorService.generateWebsite(companyInfo) settles; the deploy
\* step for the request's target is entered
GenerateWebsite(p) ==
  /\ rq[p].pc = "generate"
  /\ \/ /\ rq' = [rq EXCEPT ![p] = Failure(rq[p], 500)]
        /\ UNCHANGED <<rd, hl, hs, dp>>
     \/ /\ rq[p].deployTarget = "qiniu"
        /\ rq' = [rq EXCEPT ![p] = [rq[p] EXCEPT !.pc = "deploy",
                                               !.did = rq[p].did \cup {"deploy"}]]
        /\ dp' = [dp EXCEPT ![p] = DeployBegin(rq[p].name, env)]
        /\ UNCHANGED hs
     \/ /\ rq[p].deployTarget = "github"
        /\ rq' = [rq EXCEPT ![p] = [rq[p] EXCEPT !.pc = "deployGithub",
                                               !.did = rq[p].did \cup {"deploy"}]]
        /\ UNCHANGED <<rd, hl, hs, dp>>
     \/ /\ rq[p].deployTarget = "none"
        /\ SaveGenerated(p, rq[p])
        /\ UNCHANGED dp
  /\ UNCHANGED <<rd, hl, now, env, file, bucket, calls, dl, td, pv>>

\* a handler that records the site whether or not the deploy threw
GenerateDeployed_SaveAnyway(p) ==
  /\ rq[p].pc = "deploy"
  /\ dp[p].pc = "done"
  /\ SaveGenerated(p, [rq[p] EXCEPT !.deployResult = dp[p].result])
  /\ UNCHANGED <<rd, hl, now, env, file, bucket, dp, calls, dl, td, pv>>

\* await qiniuService.deployToQiniu(outputDir, companyInfo) settles
GenerateDeployed(p) ==
  /\ rq[p].pc = "deploy"
  /\ dp[p].pc = "done"
  /\ IF dp[p].outcome = "threw"
     THEN /\ rq' = [rq EXCEPT ![p] = Failure(rq[p], 500)]
          /\ UNCHANGED hs
     ELSE SaveGenerated(p, [rq[p] EXCEPT !.deployResult = dp[p].result])
  /\ UNCHANGED <<rd, hl, now, env, file, bucket, dp, calls, dl, td, pv>>

\* await githubService.deployToGithub(outputDir, companyInfo) settles; its
\* result carries no previewUrl, indexUrl or dirName
GenerateDeployedGithub(p) ==
  /\ rq[p].pc = "deployGithub"
  /\ \/ /\ rq' = [rq EXCEPT ![p] = Failure(rq[p], 500)]
        /\ UNCHANGED hs
     \/ SaveGenerated(p, [rq[p] EXCEPT !.deployResult.success = TRUE])
  /\ UNCHANGED <<rd, hl, now, env, file, bucket, dp, calls, dl, td, pv>>

\* await historyService.saveRecord(...) has resolved: res.json(...)
GenerateSaved(p) ==
  /\ rq[p].pc = "saveRecord"
  /\ hs[p].pc = "done"
  /\ rq' = [rq EXCEPT ![p] = [rq[p] EXCEPT !.pc = "done",
                                         !.res = GeneratedResponse(rq[p])]]
  /\ hs' = [hs EXCEPT ![p] = HsIdle]
  /\ UNCHANGED <<rd, hl, now, env, file, bucket, dp, calls, dl, td, pv>>

----------------------------------------------------------------------------
(* API routes: DELETE /api/history/:id                                     *)

\* a teardown decision that looks at the stored prefix alone
ShouldTeardown_AnyTarget(found, record) == found /\ Truthy(record.qiniuDir)

\* record && record.deployTarget === 'qiniu' && record.qiniuDir
ShouldTeardown(found, record) ==
  found /\ record.deployTarget = "qiniu" /\ Truthy(record.qiniuDir)

MaxDeletes == 2

DeleteIds == {1, 2, 3, HISTORY_LIMIT + 49}

\* DELETE /api/history/:id arrives; historyService.getRecord is awaited
DeleteRequest(p) ==
  \E id \in DeleteIds :
    /\ Free(p)
    /\ calls < MaxDeletes
    /\ calls' = calls + 1
    /\ dl' = [dl EXCEPT ![p] = [DlIdle EXCEPT !.pc = "getRecord", !.id = id]]
    /\ hs' = [hs EXCEPT ![p] = HsCall("getRecord", id, NoEntry, <<>>)]
    /\ td' = [td EXCEPT ![p] = TdIdle]
    /\ UNCHANGED <<rd, hl, now, env, file, bucket, dp, rq, pv>>

\* await historyService.getRecord(id) has resolved: deleteFromQiniu is
\* called for a qiniu record, historyService.deleteRecord otherwise
DeleteFound(p) ==
  LET found == hs[p].ret.kind = "entry"
      record == hs[p].ret.entry
      d == [dl[p] EXCEPT !.found = found, !.record = record] IN
  /\ dl[p].pc = "getRecord"
  /\ hs[p].pc = "done"
  /\ IF ShouldTeardown(found, record)
     THEN /\ dl' = [dl EXCEPT ![p] =
                      [d EXCEPT !.pc = "teardown",
                                !.teardowns = Append(d.teardowns, record.qiniuDir)]]
          /\ td' = [td EXCEPT ![p] = TeardownBegin(record.qiniuDir, env)]
          /\ UNCHANGED hs
     ELSE /\ dl' = [dl EXCEPT ![p] = [d EXCEPT !.pc = "deleteRecord"]]
          /\ hs' = [hs EXCEPT ![p] = HsCall("deleteRecord", dl[p].id, NoEntry, <<>>)]
          /\ UNCHANGED td
  /\ UNCHANGED <<rd, hl, now, env, file, bucket, dp, rq, pv, calls>>

\* a handler without the inner try/catch: a rejected teardown is answered
\* 500 and the record is kept
DeleteTornDown_FailOnReject(p) ==
  /\ dl[p].pc = "teardown"
  /\ td[p].pc = "done"
  /\ IF td[p].outcome = "threw"
     THEN /\ dl' = [dl EXCEPT ![p] = [dl[p] EXCEPT !.pc = "done", !.status = 500]]
          /\ UNCHANGED hs
     ELSE /\ dl' = [dl EXCEPT ![p] = [dl[p] EXCEPT !.pc = "deleteRecord"]]
          /\ hs' = [hs EXCEPT ![p] = HsCall("deleteRecord", dl[p].id, NoEntry, <<>>)]
  /\ UNCHANGED <<rd, hl, now, env, file, bucket, dp, rq, td, pv, calls>>

\* await qiniuService.deleteFromQiniu(record.qiniuDir) has settled (a
\* rejection is caught and logged): historyService.deleteRecord is awaited
DeleteTornDown(p) ==
  /\ dl[p].pc = "teardown"
  /\ td[p].pc = "done"
  /\ dl' = [dl EXCEPT ![p] = [dl[p] EXCEPT !.pc = "deleteRecord"]]
  /\ hs' = [hs EXCEPT ![p] = HsCall("deleteRecord", dl[p].id, NoEntry, <<>>)]
  /\ UNCHANGED <<rd, hl, now, env, file, bucket, dp, rq, td, pv, calls>>

\* await historyService.deleteRecord(id) has resolved: res.json(...)
DeleteRemoved(p) ==
  /\ dl[p].pc = "deleteRecord"
  /\ hs[p].pc = "done"
  /\ dl' = [dl EXCEPT ![p] = [dl[p] EXCEPT !.pc = "done", !.status = 200]]
  /\ UNCHANGED <<rd, hl, now, env, file, bucket, hs, dp, rq, td, pv, calls>>

----------------------------------------------------------------------------
(* Express app: GET /preview/<path>                                        *)

HOUR_SECONDS == 3600

S_html == <<"h","t","m","l">>
S_htm == <<"h","t","m">>
S_cssExt == <<"c","s","s">>
S_jsExt == <<"j","s">>
S_json == <<"j","s","o","n">>
S_png == <<"p","n","g">>
S_jpg == <<"j","p","g">>
S_jpeg == <<"j","p","e","g">>
S_gif == <<"g","i","f">>
S_svg == <<"s","v","g">>
S_ico == <<"i","c","o">>
S_httpScheme == <<"h","t","t","p">>

EndsWith(s, suf) ==
  Len(s) >= Len(suf) /\ SubSeq(s, Len(s) - Len(suf) + 1, Len(s)) = suf

Includes(s, c) == \E i \in 1..Len(s) : s[i] = c

\* position of the last occurrence of c in s, 0 when there is none
LastIndexOf(s, c) ==
  IF Includes(s, c)
  THEN CHOOSE i \in 1..Len(s) : s[i] = c /\ \A j \in (i + 1)..Len(s) : s[j] # c
  ELSE 0

ToLowerChar(c) ==
  CASE c = "A" -> "a" [] c = "B" -> "b" [] c = "C" -> "c"
    [] c = "I" -> "i" [] c = "S" -> "s" [] OTHER -> c

ToLowerCase(s) == [i \in 1..Len(s) |-> ToLowerChar(s[i])]

\* req.params.path.replace(/\/$/, '')
StripTrailingSlash(path) ==
  IF EndsWith(path, S_slash) THEN SubSeq(path, 1, Len(path) - 1) ELSE path

\* fileKey as the handler resolves it from req.params.path
FileKey(path) ==
  LET previewPath == StripTrailingSlash(path) IN
  IF ~Includes(previewPath, ".") \/ EndsWith(previewPath, S_slash)
  THEN IF EndsWith(previewPath, S_slash)
       THEN previewPath \o S_indexHtml
       ELSE previewPath \o S_slash \o S_indexHtml
  ELSE previewPath

\* fileKey.split('.').pop().toLowerCase()
ExtOf(fileKey) ==
  ToLowerCase(SubSeq(fileKey, LastIndexOf(fileKey, ".") + 1, Len(fileKey)))

\* a proxy that forwards the content type of the upstream answer
ContentTypeFor_Upstream(ext, upstreamType) == upstreamType

\* the Content-Type the handler sets before piping the upstream body
ContentTypeFor(ext, upstreamType) ==
  IF ext = S_html \/ ext = S_htm THEN "text/html; charset=utf-8"
  ELSE IF ext = S_cssExt THEN "text/css; charset=utf-8"
  ELSE IF ext = S_jsExt THEN "application/javascript; charset=utf-8"
  ELSE IF ext = S_json THEN "application/json; charset=utf-8"
  ELSE IF ext = S_png THEN "image/png"
  ELSE IF ext = S_jpg \/ ext = S_jpeg THEN "image/jpeg"
  ELSE IF ext = S_gif THEN "image/gif"
  ELSE IF ext = S_svg THEN "image/svg+xml"
  ELSE IF ext = S_ico THEN "image/x-icon"
  ELSE "text/plain; charset=utf-8"

\* domainWithProtocol + '/' + fileKey, the url privateDownloadUrl signs
PreviewBaseUrl(fileKey, e) ==
  LET config == getQiniuConfig(e)
      domain == OrElse(config.domain, DefaultDomain(config))
      domainWithProtocol == IF StartsWith(domain, S_httpScheme) THEN domain
                            ELSE S_http \o domain IN
  domainWithProtocol \o S_slash \o fileKey

\* a deadline taken once, when the server started
PreviewDeadline_Startup(t) == (T0 \div 1000) + HOUR_SECONDS

\* Math.floor(Date.now() / 1000) + 3600
PreviewDeadline(t) == (t \div 1000) + HOUR_SECONDS

\* signedUrl: privateDownloadUrl(domainWithProtocol, fileKey, deadline)
PreviewSignedUrl(fileKey, e, t) ==
  LET config == getQiniuConfig(e) IN
  privateDownloadUrl(PreviewBaseUrl(fileKey, e), PreviewDeadline(t),
                     config.accessKey, config.secretKey)

PvResponse(status, contentType, body, url) ==
  [status |-> status, contentType |-> contentType, body |-> body, url |-> url,
   sent |-> 1]

MaxPreviews == 2

\* req.params.path values: a site root with and without the trailing slash,
\* assets, an upper-case extension, and the root of a site whose company
\* name contains a '.'
PreviewPaths ==
  LET a == DirName(NameA, EnvFull)
      c == DirName(NameC, EnvFull) IN
  { a \o S_slash, a, a \o S_slash \o S_css, a \o S_slash \o <<"a",".","C","S","S">>,
    a \o S_slash \o <<"a",".","p","n","g">>, c \o S_slash,
    c \o S_slash \o S_indexHtml }

\* response.statusCode of the storage backend
UpstreamStatuses == {200, 401, 403, 404}

\* content-type header of the storage backend's answer
UpstreamTypes == {"application/octet-stream", "text/html; charset=utf-8"}

\* GET /preview/<path> arrives for one of the given paths; the handler runs
\* up to client.get(signedUrl)
PreviewRequestFor(p, paths) ==
  \E path \in paths :
    /\ Free(p)
    /\ calls < MaxPreviews
    /\ calls' = calls + 1
    /\ pv' = [pv EXCEPT ![p] =
                [PvIdle EXCEPT !.pc = "fetch", !.path = path,
                               !.fileKey = FileKey(path), !.at = now,
                               !.signed = StringToSign(PreviewBaseUrl(FileKey(path), env),
                                                       PreviewDeadline(now)),
                               !.signedUrl = PreviewSignedUrl(FileKey(path), env, now)]]
    /\ UNCHANGED <<rd, hl, now, env, file, bucket, hs, dp, rq, dl, td>>

PreviewRequest(p) == PreviewRequestFor(p, PreviewPaths)

\* the client.get callback runs with the upstream response
PreviewAnswered(p) ==
  /\ pv[p].pc = "fetch"
  /\ \E status \in UpstreamStatuses, upstreamType \in UpstreamTypes :
       LET v == [pv[p] EXCEPT !.upstream = status, !.upstreamType = upstreamType] IN
       IF status = 401
       THEN pv' = [pv EXCEPT ![p] =
                     [v EXCEPT !.pc = "done",
                               !.res = PvResponse(401, "application/json", "error",
                                                  v.signedUrl)]]
       ELSE pv' = [pv EXCEPT ![p] =
                     [v EXCEPT !.pc = "streaming",
                               !.res = PvResponse(200,
                                         ContentTypeFor(ExtOf(v.fileKey), upstreamType),
                                         "stream", Undefined)]]
  /\ UNCHANGED <<rd, hl, now, env, file, bucket, hs, dp, rq, dl, td, calls>>

\* the request emits 'error' before any upstream response: reject, catch,
\* res.status(500).json(...)
PreviewConnectFailed(p) ==
  /\ pv[p].pc = "fetch"
  /\ pv' = [pv EXCEPT ![p] =
              [pv[p] EXCEPT !.pc = "done", !.failed = TRUE,
                            !.res = PvResponse(500, "application/json", "error",
                                               Undefined)]]
  /\ UNCHANGED <<rd, hl, now, env, file, bucket, hs, dp, rq, dl, td, calls>>

\* response 'end': the piped body is complete and the promise resolves
PreviewStreamEnd(p) ==
  /\ pv[p].pc = "streaming"
  /\ pv' = [pv EXCEPT ![p] = [pv[p] EXCEPT !.pc = "done"]]
  /\ UNCHANGED <<rd, hl, now, env, file, bucket, hs, dp, rq, dl, td, calls>>

\* the connection breaks while the body is piped, after the 200 head went
\* out: either the request emits 'error' (reject, and res.status(500).json
\* in the catch throws because the headers are sent), or no 'end' and no
\* request 'error' arrive and the handler stays pending
PreviewStreamFailed(p) ==
  /\ pv[p].pc = "streaming"
  /\ \E pc \in {"done", "pending"} :
       pv' = [pv EXCEPT ![p] =
                [pv[p] EXCEPT !.pc = pc, !.failed = TRUE, !.res.body = "truncated"]]
  /\ UNCHANGED <<rd, hl, now, env, file, bucket, hs, dp, rq, dl, td, calls>>

----------------------------------------------------------------------------
(* Callers of the history service                                          *)

\* n entries saved before the behaviour starts, newest first, ids n..1
Seed(n) ==
  [ i \in 1..n |->
      Entry(n - i + 1, NameA, "none", Undefined, Undefined, Undefined,
            n - i + 1, n - i + 1) ]

SeedSizes == {HISTORY_LIMIT - 1, HISTORY_LIMIT}

SaveInputs ==
  { Entry(id, NameB, "none", Undefined, Undefined, Undefined, 0, 0) :
      id \in {NoKey, HISTORY_LIMIT + 10} }

TargetIds == {1, HISTORY_LIMIT + 49}

\* the `updates` objects callers pass: one field, or fields that name the
\* record's id and createdAt
UpdateInputs ==
  { [deployTarget |-> "github"],
    [id |-> HISTORY_LIMIT + 20, createdAt |-> 5] }

Start(p, call) ==
  /\ Free(p)
  /\ calls < MaxCalls
  /\ calls' = calls + 1
  /\ hs' = [hs EXCEPT ![p] = call]
  /\ UNCHANGED <<rd, hl, now, env, file, bucket, dp, rq, dl, td, pv>>

SaveRecordCall(p) ==
  \E record \in SaveInputs : Start(p, HsCall("saveRecord", NoKey, record, <<>>))

GetRecordCall(p) ==
  \E id \in TargetIds : Start(p, HsCall("getRecord", id, NoEntry, <<>>))

UpdateRecordCall(p) ==
  \E id \in TargetIds, updates \in UpdateInputs :
    Start(p, HsCall("updateRecord", id, NoEntry, updates))

DeleteRecordCall(p) ==
  \E id \in TargetIds : Start(p, HsCall("deleteRecord", id, NoEntry, <<>>))


InitHistory ==
  /\ now = T0
  /\ env = EnvFull
  /\ file \in {[exists |-> FALSE, records |-> <<>>]}
            \cup {[exists |-> TRUE, records |-> Seed(n)] : n \in SeedSizes}
  /\ bucket = {}
  /\ hs = [p \in Procs |-> HsIdle]
  /\ dp = [p \in Procs |-> DpIdle]
  /\ rq = [p \in Procs |-> RqIdle]
  /\ dl = [p \in Procs |-> DlIdle]
  /\ td = [p \in Procs |-> TdIdle]
  /\ pv = [p \in Procs |-> PvIdle]
  /\ rd = RdNone
  /\ hl = [p \in Procs |-> HlIdle]
  /\ calls = 0

NextHistory ==
  \/ \E p \in Procs : SaveRecordCall(p)
  \/ \E p \in Procs : GetRecordCall(p)
  \/ \E p \in Procs : UpdateRecordCall(p)
  \/ \E p \in Procs : DeleteRecordCall(p)
  \/ \E p \in Procs : HGetHistory(p)
  \/ \E p \in Procs : HWriteFile(p)
  \/ Tick

SpecHistory == InitHistory /\ [][NextHistory]_vars

----------------------------------------------------------------------------
(* Callers of deployToQiniu                                                *)

DeployNames == {NameA, NameC}

\* the callers invoke deployToQiniu one after the other
DeployCall(p) ==
  \E name \in DeployNames :
    /\ \A q \in Procs : Free(q)
    /\ calls < MaxDeploys
    /\ calls' = calls + 1
    /\ dp' = [dp EXCEPT ![p] = DeployBegin(name, env)]
    /\ UNCHANGED <<rd, hl, now, env, file, bucket, hs, rq, dl, td, pv>>

InitDeploy ==
  /\ now = T0
  /\ env \in Envs
  /\ file = [exists |-> FALSE, records |-> <<>>]
  /\ bucket = {}
  /\ hs = [p \in Procs |-> HsIdle]
  /\ dp = [p \in Procs |-> DpIdle]
  /\ rq = [p \in Procs |-> RqIdle]
  /\ dl = [p \in Procs |-> DlIdle]
  /\ td = [p \in Procs |-> TdIdle]
  /\ pv = [p \in Procs |-> PvIdle]
  /\ rd = RdNone
  /\ hl = [p \in Procs |-> HlIdle]
  /\ calls = 0

NextDeploy ==
  \/ \E p \in Procs : DeployCall(p)
  \/ \E p \in Procs : DeployReadDir(p, DirSizes)
  \/ \E p \in Procs : DeployReadFile(p)
  \/ \E p \in Procs : DeployPut(p)
  \/ Tick

SpecDeploy == InitDeploy /\ [][NextDeploy]_vars

----------------------------------------------------------------------------
(* The server handling POST /api/generate requests                         *)

\* a history entry as an earlier POST /api/generate for `name` left it
Generated(id, name, target) ==
  LET d == IF target = "qiniu" THEN DeployResult(DirName(name, EnvFull), EnvFull, id, 1, 0)
           ELSE NoResult IN
  Entry(id, name, target, d.previewUrl, d.indexUrl, d.dirName, id, id)

\* histories earlier requests have left behind
GeneratedHistories ==
  { <<>>,
    <<Generated(1, NameA, "qiniu")>>,
    <<Generated(2, NameA, "none"), Generated(1, NameA, "qiniu")>> }

\* numbers of files generateWebsite leaves in the output directory
GeneratedSizes == {1}

\* process.env of the server: fully configured, or without a bucket
GenerateEnvs == {EnvFull, [EnvFull EXCEPT !.QINIU_BUCKET = Undefined]}

InitGenerate ==
  /\ now = T0
  /\ env \in GenerateEnvs
  /\ file \in {[exists |-> FALSE, records |-> <<>>]}
            \cup {[exists |-> TRUE, records |-> h] : h \in GeneratedHistories}
  /\ bucket = {}
  /\ hs = [p \in Procs |-> HsIdle]
  /\ dp = [p \in Procs |-> DpIdle]
  /\ rq = [p \in Procs |-> RqIdle]
  /\ dl = [p \in Procs |-> DlIdle]
  /\ td = [p \in Procs |-> TdIdle]
  /\ pv = [p \in Procs |-> PvIdle]
  /\ rd = RdNone
  /\ hl = [p \in Procs |-> HlIdle]
  /\ calls = 0

NextGenerate ==
  \/ \E p \in Procs : GenerateRequest(p)
  \/ \E p \in Procs : GenerateCheckExisting(p)
  \/ \E p \in Procs : GenerateExtract(p)
  \/ \E p \in Procs : GenerateWebsite(p)
  \/ \E p \in Procs : GenerateDeployed(p)
  \/ \E p \in Procs : GenerateDeployedGithub(p)
  \/ \E p \in Procs : GenerateSaved(p)
  \/ \E p \in Procs : HGetHistory(p)
  \/ \E p \in Procs : HWriteFile(p)
  \/ \E p \in Procs : DeployReadDir(p, GeneratedSizes)
  \/ \E p \in Procs : DeployReadFile(p)
  \/ \E p \in Procs : DeployPut(p)
  \/ Tick

SpecGenerate == InitGenerate /\ [][NextGenerate]_vars

\* the same server when no client ever sets forceRegenerate
NextUnforced ==
  \/ \E p \in Procs : GenerateRequestWith(p, {FALSE})
  \/ \E p \in Procs : GenerateCheckExisting(p)
  \/ \E p \in Procs : GenerateExtract(p)
  \/ \E p \in Procs : GenerateWebsite(p)
  \/ \E p \in Procs : GenerateDeployed(p)
  \/ \E p \in Procs : GenerateDeployedGithub(p)
  \/ \E p \in Procs : GenerateSaved(p)
  \/ \E p \in Procs : HGetHistory(p)
  \/ \E p \in Procs : HWriteFile(p)
  \/ \E p \in Procs : DeployReadDir(p, GeneratedSizes)
  \/ \E p \in Procs : DeployReadFile(p)
  \/ \E p \in Procs : DeployPut(p)
  \/ Tick

SpecUnforced == InitGenerate /\ [][NextUnforced]_vars

----------------------------------------------------------------------------
(* The server handling DELETE /api/history/:id requests                    *)

\* the history before the requests: a qiniu site, a record without deploy,
\* and a record of a qiniu site whose deployTarget was later updated
StoredRecords ==
  << [Generated(3, NameB, "qiniu") EXCEPT !.deployTarget = "github"],
     Generated(2, NameA, "none"),
     Generated(1, NameA, "qiniu") >>

\* the bucket holds the first n files of a site
SiteKeys(name, n) == { RemotePath(DirName(name, EnvFull), i) : i \in 1..n }

\* numbers of objects under the prefix of the qiniu record
StoredSizes == {0, 1, PageSize, PageSize + 1}

\* process.env of the server: fully configured, or without a bucket
TeardownEnvs == {EnvFull, [EnvFull EXCEPT !.QINIU_BUCKET = Undefined]}

InitTeardown ==
  /\ now = T0
  /\ env \in TeardownEnvs
  /\ file = [exists |-> TRUE, records |-> StoredRecords]
  /\ bucket \in { SiteKeys(NameA, n) \cup SiteKeys(NameB, 1) : n \in StoredSizes }
  /\ hs = [p \in Procs |-> HsIdle]
  /\ dp = [p \in Procs |-> DpIdle]
  /\ rq = [p \in Procs |-> RqIdle]
  /\ dl = [p \in Procs |-> DlIdle]
  /\ td = [p \in Procs |-> TdIdle]
  /\ pv = [p \in Procs |-> PvIdle]
  /\ rd = RdNone
  /\ hl = [p \in Procs |-> HlIdle]
  /\ calls = 0

NextTeardown ==
  \/ \E p \in Procs : DeleteRequest(p)
  \/ \E p \in Procs : DeleteFound(p)
  \/ \E p \in Procs : DeleteTornDown(p)
  \/ \E p \in Procs : DeleteRemoved(p)
  \/ \E p \in Procs : TeardownList(p)
  \/ \E p \in Procs : TeardownBatch(p)
  \/ \E p \in Procs : HGetHistory(p)
  \/ \E p \in Procs : HWriteFile(p)

SpecTeardown == InitTeardown /\ [][NextTeardown]_vars

----------------------------------------------------------------------------
(* The server handling GET /preview/* requests                             *)

PreviewEnvs == {EnvFull, [EnvFull EXCEPT !.QINIU_DOMAIN = Undefined]}

\* the history holds the record of the site whose files are requested
InitPreview ==
  /\ now = T0
  /\ env \in PreviewEnvs
  /\ file = [exists |-> TRUE, records |-> <<Generated(1, NameA, "qiniu")>>]
  /\ bucket = {}
  /\ hs = [p \in Procs |-> HsIdle]
  /\ dp = [p \in Procs |-> DpIdle]
  /\ rq = [p \in Procs |-> RqIdle]
  /\ dl = [p \in Procs |-> DlIdle]
  /\ td = [p \in Procs |-> TdIdle]
  /\ pv = [p \in Procs |-> PvIdle]
  /\ rd = RdNone
  /\ hl = [p \in Procs |-> HlIdle]
  /\ calls = 0

NextPreview ==
  \/ \E p \in Procs : PreviewRequest(p)
  \/ \E p \in Procs : PreviewAnswered(p)
  \/ \E p \in Procs : PreviewConnectFailed(p)
  \/ \E p \in Procs : PreviewStreamEnd(p)
  \/ \E p \in Procs : PreviewStreamFailed(p)
  \/ Tick

SpecPreview == InitPreview /\ [][NextPreview]_vars

\* an event of the upstream connection of p's request
UpstreamEvent(p) ==
  \/ PreviewAnswered(p)
  \/ PreviewConnectFailed(p)
  \/ PreviewStreamEnd(p)
  \/ PreviewStreamFailed(p)

\* the proxy when every upstream connection keeps delivering its events
SpecPreviewFair == SpecPreview /\ \A p \in Procs : WF_vars(UpstreamEvent(p))

----------------------------------------------------------------------------
(* Sites deployed by deployToQiniu and then requested through the proxy    *)

\* req.params.path of the route /preview/:path(*) for a previewUrl
ParamPath(url) ==
  SubSeq(url, IndexOf(url, S_preview) + Len(S_preview), Len(url))

\* the previewUrl values deployToQiniu has returned so far
ReturnedPreviewUrls ==
  { dp[q].result.previewUrl : q \in { r \in Procs : dp[r].outcome = "returned" } }

\* a client opens the previewUrl of a deployment
PreviewDeployed(p) ==
  PreviewRequestFor(p, { ParamPath(url) : url \in ReturnedPreviewUrls })

\* numbers of files in the deployed site directories
RoundTripSizes == {1, 2}

InitRoundTrip ==
  /\ now = T0
  /\ env \in PreviewEnvs
  /\ file = [exists |-> FALSE, records |-> <<>>]
  /\ bucket = {}
  /\ hs = [p \in Procs |-> HsIdle]
  /\ dp = [p \in Procs |-> DpIdle]
  /\ rq = [p \in Procs |-> RqIdle]
  /\ dl = [p \in Procs |-> DlIdle]
  /\ td = [p \in Procs |-> TdIdle]
  /\ pv = [p \in Procs |-> PvIdle]
  /\ rd = RdNone
  /\ hl = [p \in Procs |-> HlIdle]
  /\ calls = 0

NextRoundTrip ==
  \/ \E p \in Procs : DeployCall(p)
  \/ \E p \in Procs : DeployReadDir(p, RoundTripSizes)
  \/ \E p \in Procs : DeployReadFile(p)
  \/ \E p \in Procs : DeployPut(p)
  \/ \E p \in Procs : PreviewDeployed(p)
  \/ \E p \in Procs : PreviewAnswered(p)
  \/ \E p \in Procs : PreviewConnectFailed(p)
  \/ \E p \in Procs : PreviewStreamEnd(p)
  \/ \E p \in Procs : PreviewStreamFailed(p)
  \/ Tick

SpecRoundTrip == InitRoundTrip /\ [][NextRoundTrip]_vars

----------------------------------------------------------------------------
(* The server handling POST /api/generate and DELETE /api/history/:id      *)

Client == 1

\* the history holds the record of one deployed site, whose index.html is
\* in the bucket
InitLifecycle ==
  /\ now = T0
  /\ env = EnvFull
  /\ file = [exists |-> TRUE, records |-> <<Generated(1, NameA, "qiniu")>>]
  /\ bucket = SiteKeys(NameA, 1)
  /\ hs = [p \in Procs |-> HsIdle]
  /\ dp = [p \in Procs |-> DpIdle]
  /\ rq = [p \in Procs |-> RqIdle]
  /\ dl = [p \in Procs |-> DlIdle]
  /\ td = [p \in Procs |-> TdIdle]
  /\ pv = [p \in Procs |-> PvIdle]
  /\ rd = RdNone
  /\ hl = [p \in Procs |-> HlIdle]
  /\ calls = 0

\* the requests of one client, each sent after the previous one was answered
NextLifecycle ==
  \/ GenerateRequest(Client)
  \/ GenerateCheckExisting(Client)
  \/ GenerateExtract(Client)
  \/ GenerateWebsite(Client)
  \/ GenerateDeployed(Client)
  \/ GenerateDeployedGithub(Client)
  \/ GenerateSaved(Client)
  \/ DeployReadDir(Client, GeneratedSizes)
  \/ DeployReadFile(Client)
  \/ DeployPut(Client)
  \/ DeleteRequest(Client)
  \/ DeleteFound(Client)
  \/ DeleteTornDown(Client)
  \/ DeleteRemoved(Client)
  \/ TeardownList(Client)
  \/ TeardownBatch(Client)
  \/ HGetHistory(Client)
  \/ HWriteFile(Client)
  \/ Tick

SpecLifecycle == InitLifecycle /\ [][NextLifecycle]_vars

----------------------------------------------------------------------------
(* GET /api/health and checkQiniuConfig                                    *)

MaxHealthChecks == 2   \* health requests answered in one behaviour

\* a check that counts the site as configured only with a custom domain
checkQiniuConfig_DomainRequired(e) ==
  LET config == getQiniuConfig(e) IN
  [ accessKey |-> Truthy(config.accessKey),
    secretKey |-> Truthy(config.secretKey),
    bucket |-> Truthy(config.bucket),
    domain |-> Truthy(config.domain),
    configured |-> Truthy(config.accessKey) /\ Truthy(config.secretKey)
                     /\ Truthy(config.bucket) /\ Truthy(config.domain) ]

\* checkQiniuConfig()
checkQiniuConfig(e) ==
  LET config == getQiniuConfig(e) IN
  [ accessKey |-> Truthy(config.accessKey),
    secretKey |-> Truthy(config.secretKey),
    bucket |-> Truthy(config.bucket),
    domain |-> Truthy(config.domain),
    configured |-> Truthy(config.accessKey) /\ Truthy(config.secretKey)
                     /\ Truthy(config.bucket) ]

\* process.env: every combination of access key, secret key, bucket and
\* custom domain being set or not
HealthEnvs ==
  { [ EnvFull EXCEPT !.QINIU_ACCESS_KEY = IF ak THEN AccessKeyValue ELSE Undefined,
                     !.QINIU_SECRET_KEY = IF sk THEN SecretKeyValue ELSE Undefined,
                     !.QINIU_BUCKET = IF b THEN BucketValue ELSE Undefined,
                     !.QINIU_DOMAIN = IF d THEN DomainValue ELSE Undefined ] :
      ak \in BOOLEAN, sk \in BOOLEAN, b \in BOOLEAN, d \in BOOLEAN }

\* GET /api/health: the handler answers at once
HealthRequest(p) ==
  /\ Free(p)
  /\ calls < MaxHealthChecks
  /\ calls' = calls + 1
  /\ hl' = [hl EXCEPT ![p] = [answered |-> TRUE, timestamp |-> now,
                               qiniu |-> checkQiniuConfig(env)]]
  /\ UNCHANGED <<now, env, file, bucket, hs, dp, rq, dl, td, pv, rd>>

InitHealth ==
  /\ now = T0
  /\ env \in HealthEnvs
  /\ file = [exists |-> FALSE, records |-> <<>>]
  /\ bucket = {}
  /\ hs = [p \in Procs |-> HsIdle]
  /\ dp = [p \in Procs |-> DpIdle]
  /\ rq = [p \in Procs |-> RqIdle]
  /\ dl = [p \in Procs |-> DlIdle]
  /\ td = [p \in Procs |-> TdIdle]
  /\ pv = [p \in Procs |-> PvIdle]
  /\ rd = RdNone
  /\ hl = [p \in Procs |-> HlIdle]
  /\ calls = 0

NextHealth ==
  \/ \E p \in Procs : HealthRequest(p)
  \/ Tick

SpecHealth == InitHealth /\ [][NextHealth]_vars

----------------------------------------------------------------------------
(* readDirRecursive of the qiniu and the github deploy service             *)

MaxEnumerations == 2   \* readDirRecursive calls started in one behaviour

\* a Dirent of fs.readdir(dir, { withFileTypes: true }), together with
\* the entries fs.readdir reports for the directory it names
FileEntry(name) == [name |-> name, isDirectory |-> FALSE, entries |-> <<>>]

DirEntry(name, entries) == [name |-> name, isDirectory |-> TRUE, entries |-> entries]

S_backslash == <<"\\">>
S_cssDir == <<"c","s","s">>
S_styleCss == <<"s","t","y","l","e",".","c","s","s">>
S_imgDir == <<"i","m","g">>
S_logoPng == <<"l","o","g","o",".","p","n","g">>
S_emptyDir == <<"t","m","p">>
S_outputDir == <<"o","u","t">>

\* site directories: empty, one file, the generated layout with a
\* subdirectory, a file two directories deep beside an empty directory, and
\* nothing but an empty directory
Trees ==
  { <<>>,
    <<FileEntry(S_indexHtml)>>,
    <<DirEntry(S_cssDir, <<FileEntry(S_styleCss)>>), FileEntry(S_indexHtml)>>,
    <<DirEntry(S_cssDir, <<DirEntry(S_imgDir, <<FileEntry(S_logoPng)>>),
                           DirEntry(S_emptyDir, <<>>),
                           FileEntry(S_styleCss)>>),
      FileEntry(S_indexHtml)>>,
    <<DirEntry(S_emptyDir, <<>>)>> }

\* path.sep of the host: POSIX or Windows
Separators == {S_slash, S_backslash}

\* path.join(dir, entry.name)
PathJoin(dir, name, sep) == dir \o sep \o name

\* path.relative(baseDir, fullPath) for a fullPath below baseDir
PathRelative(baseDir, fullPath) == SubSeq(fullPath, Len(baseDir) + 2, Len(fullPath))

RECURSIVE ReplaceAll(_, _, _)
\* s.replace(/pat/g, rep) for a pattern that matches the literal text pat
ReplaceAll(s, pat, rep) ==
  LET i == IndexOf(s, pat) IN
  IF i = 0 THEN s
  ELSE SubSeq(s, 1, i - 1) \o rep
         \o ReplaceAll(SubSeq(s, i + Len(pat), Len(s)), pat, rep)

\* the relativePath of a returned entry: the qiniu service replaces /\\/g,
\* one backslash; the github service replaces /\\\\/g, two in a row
NormalizedPath(service, relativePath) ==
  IF service = "qiniu" THEN ReplaceAll(relativePath, S_backslash, S_slash)
  ELSE ReplaceAll(relativePath, S_backslash \o S_backslash, S_slash)

\* a readDirRecursive(dir, baseDir) call awaiting its fs.readdir, which will
\* report the given entries
Frame(dir, entries) == [dir |-> dir, entries |-> entries, k |-> 1, files |-> <<>>]

RECURSIVE ReadDirLoop(_, _, _)
\* the for loop of the innermost call from its k-th entry on, run up to the
\* next await: a file is pushed, a directory starts a nested call, and a
\* finished call hands its files to the loop of the call that awaits it
ReadDirLoop(r, sep, baseDir) ==
  LET n == Len(r.stack)
      f == r.stack[n] IN
  IF f.k > Len(f.entries)
  THEN IF n = 1
       THEN [r EXCEPT !.pc = "done", !.outcome = "returned", !.files = f.files,
                      !.stack = <<>>]
       ELSE LET g == r.stack[n - 1] IN
            ReadDirLoop([r EXCEPT !.stack =
                           Append(SubSeq(r.stack, 1, n - 2),
                                  [g EXCEPT !.files = g.files \o f.files,
                                            !.k = g.k + 1])],
                        sep, baseDir)
  ELSE LET entry == f.entries[f.k]
           fullPath == PathJoin(f.dir, entry.name, sep)
           relativePath == PathRelative(baseDir, fullPath) IN
       IF entry.isDirectory
       THEN [r EXCEPT !.stack = Append(r.stack, Frame(fullPath, entry.entries))]
       ELSE ReadDirLoop([r EXCEPT !.stack[n] =
                           [f EXCEPT !.files =
                                       Append(f.files,
                                              [path |-> fullPath,
                                               relativePath |->
                                                 NormalizedPath(r.service, relativePath)]),
                                     !.k = f.k + 1]],
                        sep, baseDir)

RdStep(p, r) ==
  /\ rd' = [rd EXCEPT !.run[p] = r]
  /\ UNCHANGED <<now, env, file, bucket, hs, dp, rq, dl, td, pv, hl, calls>>

\* a deploy service calls readDirRecursive(sourceDir, sourceDir), which runs
\* to its fs.readdir
EnumerateCall(p) ==
  \E service \in {"qiniu", "github"} :
    /\ Free(p)
    /\ calls < MaxEnumerations
    /\ calls' = calls + 1
    /\ rd' = [rd EXCEPT !.run[p] =
                [RunIdle EXCEPT !.pc = "readdir", !.service = service,
                                !.stack = <<Frame(S_outputDir, rd.tree)>>]]
    /\ UNCHANGED <<now, env, file, bucket, hs, dp, rq, dl, td, pv, hl>>

\* the fs.readdir of the innermost call resolves
ReadDirSettled(p) ==
  /\ rd.run[p].pc = "readdir"
  /\ RdStep(p, ReadDirLoop(rd.run[p], rd.sep, S_outputDir))

\* the fs.readdir of the innermost call rejects: no call catches, so the
\* outermost promise rejects
ReadDirFailed(p) ==
  /\ rd.run[p].pc = "readdir"
  /\ RdStep(p, [rd.run[p] EXCEPT !.pc = "done", !.outcome = "threw", !.stack = <<>>])

InitEnumerate ==
  /\ now = T0
  /\ env = EnvFull
  /\ file = [exists |-> FALSE, records |-> <<>>]
  /\ bucket = {}
  /\ hs = [p \in Procs |-> HsIdle]
  /\ dp = [p \in Procs |-> DpIdle]
  /\ rq = [p \in Procs |-> RqIdle]
  /\ dl = [p \in Procs |-> DlIdle]
  /\ td = [p \in Procs |-> TdIdle]
  /\ pv = [p \in Procs |-> PvIdle]
  /\ rd \in { [RdNone EXCEPT !.sep = sep, !.tree = tree] :
                sep \in Separators, tree \in Trees }
  /\ hl = [p \in Procs |-> HlIdle]
  /\ calls = 0

NextEnumerate ==
  \/ \E p \in Procs : EnumerateCall(p)
  \/ \E p \in Procs : ReadDirSettled(p)
  \/ \E p \in Procs : ReadDirFailed(p)

SpecEnumerate == InitEnumerate /\ [][NextEnumerate]_vars

----------------------------------------------------------------------------
(* Properties of deployToQiniu                                             *)

Seq1To(n) == [k \in 1..n |-> k]

IsHex(c) == \E k \in 1..Len(HexDigit) : HexDigit[k] = c

\* C3: a deployToQiniu call that passed validation and enumeration returns
\* (never throws), whatever subset of its files failed to be read or
\* uploaded, with uploadedCount + failedCount = number of enumerated files
\* and failedCount = number of files that failed.
C3_PartialFailureAccounting ==
  \A p \in Procs :
    dp[p].enumerated =>
      /\ dp[p].outcome # "threw"
      /\ dp[p].failedCount = Cardinality(dp[p].failed)
      /\ dp[p].pc = "done" =>
           /\ dp[p].outcome = "returned"
           /\ dp[p].result.uploadedCount + dp[p].result.failedCount = dp[p].nfiles
           /\ dp[p].result.failedCount = Cardinality(dp[p].failed)
           /\ dp[p].result.uploadedCount = dp[p].nfiles - Cardinality(dp[p].failed)

\* file 3 of 5 failed: the call returned uploadedCount 4, failedCount 1
C3_Witness ==
  \E p \in Procs :
    /\ dp[p].pc = "done" /\ dp[p].outcome = "returned"
    /\ dp[p].nfiles = 5 /\ dp[p].failed = {3}
    /\ dp[p].result.uploadedCount = 4 /\ dp[p].result.failedCount = 1

\* C4 as stated: a batch in which files were attempted and none succeeded
\* is not reported as success but as a hard failure.
C4_ZeroSucceededIsHardFailure ==
  \A p \in Procs :
    (dp[p].pc = "done" /\ dp[p].enumerated
       /\ dp[p].uploadedCount = 0 /\ dp[p].failedCount > 0)
      => (dp[p].outcome = "threw" \/ ~dp[p].result.success)

\* C4 as amended: every batch that passed validation and enumeration is
\* reported as success (success: true, with dirName and previewUrl), also
\* when files were attempted and none succeeded; only the counts tell.
C4_AlwaysReportedSuccess ==
  \A p \in Procs :
    (dp[p].pc = "done" /\ dp[p].enumerated) =>
      /\ dp[p].outcome = "returned"
      /\ dp[p].result.success
      /\ dp[p].result.dirName = dp[p].dirName
      /\ Truthy(dp[p].result.previewUrl)
      /\ (dp[p].uploadedCount = 0 /\ dp[p].failedCount > 0) =>
           /\ dp[p].result.uploadedCount = 0
           /\ dp[p].result.failedCount = dp[p].nfiles

\* all five files failed and the call still returned success
C4_Witness ==
  \E p \in Procs :
    /\ dp[p].pc = "done" /\ dp[p].nfiles = 5
    /\ dp[p].uploadedCount = 0 /\ dp[p].failedCount = 5
    /\ dp[p].outcome = "returned" /\ dp[p].result.success

\* C5: within one invocation the files are attempted one at a time in
\* enumeration order, each exactly once: the attempts so far are 1..i, every
\* earlier attempt has settled before the current one started, at most one
\* upload is in flight, and a finished call has attempted every file
\* whichever of them failed.
C5_SequentialInOrder ==
  \A p \in Procs :
    dp[p].enumerated =>
      /\ dp[p].attempts = Seq1To(Len(dp[p].attempts))
      /\ Cardinality(dp[p].inflight) <= 1
      /\ dp[p].inflight \subseteq {dp[p].i}
      /\ (dp[p].inflight # {}) <=> (dp[p].pc = "put")
      /\ dp[p].pc \in {"readFile", "put"} =>
           /\ Len(dp[p].attempts) = dp[p].i
           /\ dp[p].uploadedCount + dp[p].failedCount = dp[p].i - 1
           /\ dp[p].failed \subseteq 1..(dp[p].i - 1)
      /\ dp[p].pc = "done" => dp[p].attempts = Seq1To(dp[p].nfiles)

\* files 1 and 3 of 5 failed and all five were attempted, in order
C5_Witness ==
  \E p \in Procs :
    /\ dp[p].pc = "done" /\ dp[p].nfiles = 5
    /\ dp[p].failed = {1, 3}
    /\ dp[p].attempts = <<1, 2, 3, 4, 5>>

ConfigMissingKeys ==
  ~Truthy(env.QINIU_ACCESS_KEY) \/ ~Truthy(env.QINIU_SECRET_KEY)

ConfigMissingBucket == ~ConfigMissingKeys /\ ~Truthy(env.QINIU_BUCKET)

\* C6: with the access key, the secret key or the bucket missing, a call
\* fails before the directory is enumerated, an upload credential is created
\* or an upload is attempted, and missing keys and a missing bucket raise
\* different errors.
C6_ConfigValidatedFirst ==
  \A p \in Procs :
    (dp[p].pc # "idle" /\ (ConfigMissingKeys \/ ConfigMissingBucket)) =>
      /\ dp[p].pc = "done" /\ dp[p].outcome = "threw"
      /\ ~dp[p].enumerated /\ ~dp[p].uploadToken
      /\ dp[p].attempts = <<>> /\ dp[p].inflight = {}
      /\ bucket = {}
      /\ ConfigMissingKeys => dp[p].error = "NO_ACCESS_OR_SECRET_KEY"
      /\ ConfigMissingBucket => dp[p].error = "NO_BUCKET"

\* one call failed for the missing bucket, with the keys present
C6_Witness ==
  \E p \in Procs :
    /\ dp[p].pc = "done" /\ dp[p].error = "NO_BUCKET"
    /\ Truthy(env.QINIU_ACCESS_KEY) /\ Truthy(env.QINIU_SECRET_KEY)

\* C7: for the salt of the run, two calls with the same companyInfo.name
\* resolve the same dirName, at whatever time and after whatever earlier
\* calls, and a dirName is the name, '-' and 8 hexadecimal characters.
C7_DeterministicPrefix ==
  \A p, q \in Procs :
    Truthy(dp[p].dirName) =>
      /\ Len(dp[p].dirName) = Len(dp[p].name) + 1 + 8
      /\ SubSeq(dp[p].dirName, 1, Len(dp[p].name)) = dp[p].name
      /\ dp[p].dirName[Len(dp[p].name) + 1] = "-"
      /\ \A k \in (Len(dp[p].name) + 2)..Len(dp[p].dirName) : IsHex(dp[p].dirName[k])
      /\ (Truthy(dp[q].dirName) /\ dp[q].name = dp[p].name) =>
           dp[q].dirName = dp[p].dirName
      /\ (Truthy(dp[q].dirName) /\ dp[q].name # dp[p].name) =>
           dp[q].dirName # dp[p].dirName

\* two calls for the same name, the second a clock tick after the first
\* (their signed URLs expire at different times), returned the same dirName
C7_Witness ==
  \E p, q \in Procs :
    /\ p # q
    /\ dp[p].outcome = "returned" /\ dp[q].outcome = "returned"
    /\ dp[p].name = dp[q].name
    /\ dp[p].result.indexUrl # dp[q].result.indexUrl
    /\ dp[p].result.dirName = dp[q].result.dirName

----------------------------------------------------------------------------
(* Properties of the history service                                       *)

Mutating(c) == c.op \in {"saveRecord", "updateRecord", "deleteRecord"}

\* caller p's pending writeFile completes in this step
Writes(p) == hs[p].pc = "writeFile" /\ hs'[p].pc = "done"

\* C1: the persisted list never holds more than 50 records, and a
\* saveRecord into a list of 50 (no other call in between its read and its
\* write) leaves exactly 50: the new record first, then the former first 49
\* in their order, the former last (oldest) record evicted.
C1_HistoryBound ==
  /\ [](Len(getHistory(file)) <= 50)
  /\ [][ \A p \in Procs :
           ( /\ Writes(p)
             /\ hs[p].op = "saveRecord"
             /\ getHistory(file) = hs[p].history
             /\ Len(getHistory(file)) = 50 ) =>
             /\ Len(file'.records) = 50
             /\ file'.records[1] = NewEntry(hs[p].record, hs[p].at)
             /\ \A k \in 1..49 : file'.records[k + 1] = file.records[k]
             /\ \A k \in 1..50 : file'.records[k].id # file.records[50].id
       ]_vars

\* a saveRecord read 50 records and its list of 50 is the persisted one
C1_Witness ==
  \E p \in Procs :
    /\ hs[p].pc = "done" /\ hs[p].op = "saveRecord"
    /\ Len(hs[p].history) = 50
    /\ file.records = hs[p].out
    /\ Len(file.records) = 50
    /\ file.records[1].id # hs[p].history[1].id

\* C2: when two mutating calls overlap (both read the same list before
\* either wrote) the second write replaces the whole file by what that call
\* computed from its own read: the file is as if the first writer's call
\* had never run.
C2_LastWriterWins ==
  [][ \A p, q \in Procs :
        ( /\ p # q
          /\ Writes(q)
          /\ Mutating(hs[p]) /\ Mutating(hs[q])
          /\ hs[p].pc = "done"
          /\ hs[p].history = hs[q].history
          /\ getHistory(file) = hs[p].out
          /\ hs[p].out # hs[p].history ) =>
          file'.records = AfterGetHistory(hs[q], hs[p].history, hs[q].at).out
    ]_vars

\* two saveRecord calls both returned a list holding their own record; the
\* persisted list holds the record of one and not the record of the other
C2_Witness ==
  \E p, q \in Procs :
    /\ p # q
    /\ hs[p].pc = "done" /\ hs[q].pc = "done"
    /\ hs[p].op = "saveRecord" /\ hs[q].op = "saveRecord"
    /\ hs[p].history = hs[q].history
    /\ hs[p].ret.list[1].id \in IdsOf(hs[p].ret.list) \ IdsOf(getHistory(file))
    /\ hs[q].ret.list[1].id \in IdsOf(getHistory(file))

NotFound(c) == c.id \notin IdsOf(c.history)

\* C10: on an id that is not in the store no call raises: getRecord returns
\* undefined, updateRecord returns null and never reaches its writeFile,
\* deleteRecord removes zero records, and a deleteRecord of such an id (no
\* other call in between its read and its write) leaves the stored records
\* and their order as they were, however often it is repeated.
C10_NotFoundIsEmptyResult ==
  /\ [](\A p \in Procs :
          (hs[p].pc \in {"writeFile", "done"} /\ NotFound(hs[p])) =>
            /\ hs[p].op = "getRecord" =>
                 hs[p].pc = "done" /\ hs[p].ret.kind = "undefined"
            /\ hs[p].op = "updateRecord" =>
                 hs[p].pc = "done" /\ hs[p].ret.kind = "null"
            /\ hs[p].op = "deleteRecord" =>
                 /\ hs[p].out = hs[p].history
                 /\ hs[p].pc = "done" => hs[p].ret = Ret("list", hs[p].history, NoEntry))
  /\ [][ \A p \in Procs :
           ( /\ Writes(p)
             /\ hs[p].op = "deleteRecord"
             /\ NotFound(hs[p])
             /\ getHistory(file) = hs[p].history ) =>
             getHistory(file') = getHistory(file)
       ]_vars

\* two deleteRecord calls for the same absent id have both returned and the
\* non-empty list is as each of them read it
C10_Witness ==
  \E p, q \in Procs :
    /\ p # q
    /\ hs[p].pc = "done" /\ hs[q].pc = "done"
    /\ hs[p].op = "deleteRecord" /\ hs[q].op = "deleteRecord"
    /\ hs[p].id = hs[q].id /\ NotFound(hs[p]) /\ NotFound(hs[q])
    /\ hs[p].history = getHistory(file) /\ hs[q].history = getHistory(file)
    /\ Len(getHistory(file)) > 0

----------------------------------------------------------------------------
(* Properties of POST /api/generate                                        *)

Answered(r) == r.pc = "done" /\ r.res.status = 200

\* the storage prefix a response names: qiniuDir on the skip-regeneration
\* path, dirName (spread from deployResult) after an upload
PrefixOf(res) == IF res.isExisting THEN res.qiniuDir ELSE res.dirName

\* C8: two successful POST /api/generate requests for the same companyName
\* with deployTarget 'qiniu' return the same storage prefix, whether the
\* later one is answered from the existing record or uploads again.
C8_SamePrefixForSameCompany ==
  \A p, q \in Procs :
    ( /\ Answered(rq[p]) /\ Answered(rq[q])
      /\ rq[p].deployTarget = "qiniu" /\ rq[q].deployTarget = "qiniu"
      /\ rq[p].companyName = rq[q].companyName ) =>
      PrefixOf(rq[p].res) = PrefixOf(rq[q].res)

\* records of `history` the skip-regeneration path may answer from
LiveRecords(history, companyName) ==
  { i \in 1..Len(history) :
      /\ history[i].companyName = companyName
      /\ history[i].deployTarget = "qiniu"
      /\ history[i].previewUrl # Undefined }

\* C9: a POST /api/generate with deployTarget 'qiniu' and forceRegenerate
\* false that reads a history holding a record for its companyName with
\* target 'qiniu' and a previewUrl answers with the stored previewUrl,
\* indexUrl and qiniuDir of the first such record; up to its response the
\* handler has called no extraction, generation or upload, and no step of it
\* changes the history file or the bucket.
C9_SkipRegeneration ==
  /\ [](\A p \in Procs :
          rq[p].pc = "checkExisting" =>
            /\ rq[p].did = {}
            /\ dp[p].pc = "idle"
            /\ hs[p].op = "getHistory" /\ hs[p].pc # "writeFile")
  /\ [][ \A p \in Procs :
           (rq[p].pc = "checkExisting" /\ hs'[p] # hs[p]) =>
             file' = file /\ bucket' = bucket
       ]_vars
  /\ [][ \A p \in Procs :
           LET history == hs[p].ret.list
               live == LiveRecords(history, rq[p].companyName) IN
           ( /\ rq[p].pc = "checkExisting"
             /\ rq'[p].pc # "checkExisting"
             /\ live # {} ) =>
             LET i == CHOOSE i \in live : \A j \in live : i <= j IN
             /\ Answered(rq'[p])
             /\ rq'[p].res.isExisting
             /\ rq'[p].res.id = history[i].id
             /\ rq'[p].res.previewUrl = history[i].previewUrl
             /\ rq'[p].res.indexUrl = history[i].indexUrl
             /\ rq'[p].res.qiniuDir = history[i].qiniuDir
             /\ rq'[p].did = {}
             /\ dp'[p].pc = "idle"
       ]_vars

\* a request was answered from an existing record that is not the first
\* record of the history file
C9_Witness ==
  \E p \in Procs :
    /\ Answered(rq[p]) /\ rq[p].res.isExisting
    /\ ~rq[p].forceRegenerate /\ rq[p].deployTarget = "qiniu"
    /\ rq[p].did = {}
    /\ Len(getHistory(file)) > 1
    /\ getHistory(file)[1].id # rq[p].res.id
    /\ \E i \in 2..Len(getHistory(file)) :
         /\ getHistory(file)[i].id = rq[p].res.id
         /\ getHistory(file)[i].previewUrl = rq[p].res.previewUrl

\* the call's update found its record in the list it read
UpdateFound(c) == c.op = "updateRecord" /\ c.pc \in {"writeFile", "done"} /\ ~NotFound(c)

\* C11: updateRecord on an existing id hands to writeFile a list with the
\* number, order and ids of the records it read, in which every record but
\* the targeted one is unchanged and the targeted one keeps its id and
\* createdAt and has updatedAt set to the time of the update.
C11_UpdateChangesOnlyTarget ==
  \A p \in Procs :
    UpdateFound(hs[p]) =>
      LET c == hs[p]
          i == CHOOSE k \in 1..Len(c.history) :
                 c.history[k].id = c.id /\ \A j \in 1..(k - 1) : c.history[j].id # c.id IN
      /\ Len(c.out) = Len(c.history)
      /\ \A k \in 1..Len(c.history) :
           /\ c.out[k].id = c.history[k].id
           /\ c.out[k].createdAt = c.history[k].createdAt
           /\ k # i => c.out[k] = c.history[k]
      /\ c.out[i].updatedAt = c.at

\* C12: no two records of the history file have the same id, in every state
\* reachable by POST /api/generate requests that save records, in any
\* interleaving.
C12_RecordIdsUnique ==
  \A i, j \in 1..Len(getHistory(file)) :
    i # j => getHistory(file)[i].id # getHistory(file)[j].id

----------------------------------------------------------------------------
(* Properties of DELETE /api/history/:id and deleteFromQiniu               *)

\* the handler has called historyService.deleteRecord
CalledDeleteRecord(p) == dl[p].pc \in {"deleteRecord", "done"}

\* C13: a DELETE /api/history/:id handler that found a record with
\* deployTarget 'qiniu' and a qiniuDir calls deleteFromQiniu once, with that
\* record's qiniuDir, and calls deleteRecord only after that call settled;
\* a handler that found a record with another target, or no record, never
\* calls deleteFromQiniu.
C13_TeardownBeforeRemoval ==
  \A p \in Procs :
    /\ dl[p].pc = "getRecord" => dl[p].teardowns = <<>> /\ td[p].pc = "idle"
    /\ dl[p].pc = "teardown" =>
         /\ dl[p].found /\ dl[p].record.id = dl[p].id
         /\ dl[p].record.deployTarget = "qiniu"
         /\ dl[p].teardowns = <<dl[p].record.qiniuDir>>
         /\ td[p].dirName = dl[p].record.qiniuDir
         /\ hs[p].op # "deleteRecord"
    /\ CalledDeleteRecord(p) =>
         IF dl[p].found /\ dl[p].record.deployTarget = "qiniu"
              /\ dl[p].record.qiniuDir # Undefined
         THEN /\ dl[p].teardowns = <<dl[p].record.qiniuDir>>
              /\ td[p].dirName = dl[p].record.qiniuDir
              /\ td[p].pc = "done"
         ELSE dl[p].teardowns = <<>> /\ td[p].pc = "idle"

\* one handler tore down the prefix of the qiniu record and removed it, and
\* one removed a record that has a qiniuDir but another target without a
\* teardown
C13_Witness ==
  \E p, q \in Procs :
    /\ dl[p].pc = "done" /\ dl[p].id = 1 /\ dl[p].teardowns = <<StoredRecords[3].qiniuDir>>
    /\ td[p].outcome = "returned" /\ td[p].result.deletedCount = 1
    /\ 1 \notin IdsOf(getHistory(file))
    /\ dl[q].pc = "done" /\ dl[q].id = 3 /\ dl[q].found /\ dl[q].teardowns = <<>>
    /\ dl[q].record.qiniuDir # Undefined

\* the call issued its batch delete and every key of it was confirmed deleted
TornDownCleanly(t) ==
  /\ t.pc = "done" /\ t.outcome = "returned"
  /\ t.batches > 0
  /\ t.result.deletedCount = t.result.totalCount

\* C14: after a deleteFromQiniu call that succeeded without a per-key
\* failure no object whose key starts with dirName + '/' remains in the
\* bucket, however many objects (listing pages) were under the prefix.
C14_TeardownRemovesEveryPage ==
  \A p \in Procs :
    TornDownCleanly(td[p]) => UnderPrefix(bucket, td[p].dirName) = {}

\* C15: a deleteFromQiniu call whose listing is empty resolves (does not
\* reject) without issuing a batch delete, and its result reports
\* deletedCount = 0.
C15_EmptyListingIsZeroDeleted ==
  \A p \in Procs :
    td[p].listing = "empty" =>
      /\ td[p].pc = "done" /\ td[p].outcome = "returned"
      /\ td[p].result.success
      /\ td[p].batches = 0
      /\ td[p].result.deletedCount = 0

\* C16: when the batch delete answers, with whatever mix of keys deleted
\* (code 200) and keys refused, deleteFromQiniu resolves with success,
\* deletedCount the number of keys the backend deleted, totalCount the number
\* of listed keys, and deletedCount <= totalCount.
C16_PartialTeardownCounts ==
  /\ [](\A p \in Procs :
          (td[p].pc = "done" /\ td[p].listing = "items" /\ td[p].outcome = "returned") =>
            /\ td[p].result.success
            /\ td[p].result.totalCount = Cardinality(td[p].items)
            /\ td[p].result.deletedCount \in 0..td[p].result.totalCount)
  /\ [][ \A p \in Procs :
           (td[p].pc = "batch" /\ td'[p].pc = "done" /\ td'[p].outcome = "returned") =>
             /\ td'[p].result.deletedCount = Cardinality(bucket \ bucket')
             /\ bucket \ bucket' \subseteq td[p].items
       ]_vars

\* a batch of two keys deleted one and refused the other: the call resolved
\* with deletedCount 1 and totalCount 2, and the refused key is still stored
C16_Witness ==
  \E p \in Procs :
    /\ td[p].pc = "done" /\ td[p].outcome = "returned"
    /\ td[p].result.deletedCount = 1 /\ td[p].result.totalCount = 2
    /\ Cardinality(td[p].items \cap bucket) = 1

----------------------------------------------------------------------------
(* Properties of GET /preview/<path>                                       *)

\* the part of the path after its last '/'
LastSegment(path) == SubSeq(path, LastIndexOf(path, "/") + 1, Len(path))

HasExtension(path) == Includes(LastSegment(path), ".")

\* the path with index.html appended, exactly one '/' between them
WithIndexHtml(path) ==
  (IF EndsWith(path, S_slash) THEN path ELSE path \o S_slash) \o S_indexHtml

\* C17: the storage key of a preview request is the requested path with
\* index.html appended (one '/' between them) when the path ends in '/' or
\* has no file extension, and the path verbatim otherwise; a path ending in
\* '/' resolves to a key ending in '/index.html' also when a directory
\* segment contains a '.'.
C17_PreviewKeyResolution ==
  \A p \in Procs :
    pv[p].pc # "idle" =>
      pv[p].fileKey = IF EndsWith(pv[p].path, S_slash) \/ ~HasExtension(pv[p].path)
                      THEN WithIndexHtml(pv[p].path)
                      ELSE pv[p].path

\* the upstream body was piped to the client
Streamed(v) == v.res.body \in {"stream", "truncated"}

KnownExtensions ==
  {S_html, S_htm, S_cssExt, S_jsExt, S_json, S_png, S_jpg, S_jpeg, S_gif, S_svg, S_ico}

\* C18: the Content-Type of a streamed preview response is determined by the
\* extension of the resolved key (lower-cased): html -> text/html,
\* css -> text/css, png -> image/png, any other -> text/plain, and two streamed responses whose keys
\* have the same extension carry the same Content-Type whatever content
\* type the storage backend answered with.
C18_ContentTypeByExtension ==
  \A p, q \in Procs :
    Streamed(pv[p]) =>
      /\ ExtOf(pv[p].fileKey) = S_html => pv[p].res.contentType = "text/html; charset=utf-8"
      /\ ExtOf(pv[p].fileKey) = S_cssExt => pv[p].res.contentType = "text/css; charset=utf-8"
      /\ ExtOf(pv[p].fileKey) = S_png => pv[p].res.contentType = "image/png"
      /\ ExtOf(pv[p].fileKey) \notin KnownExtensions =>
           pv[p].res.contentType = "text/plain; charset=utf-8"
      /\ (Streamed(pv[q]) /\ ExtOf(pv[q].fileKey) = ExtOf(pv[p].fileKey)) =>
           pv[q].res.contentType = pv[p].res.contentType

\* two stylesheets, one requested as .CSS, were streamed as text/css although
\* the backend answered one as octet-stream and the other as text/html
C18_Witness ==
  \E p, q \in Procs :
    /\ Streamed(pv[p]) /\ Streamed(pv[q])
    /\ pv[p].fileKey # pv[q].fileKey
    /\ ExtOf(pv[p].fileKey) = S_cssExt /\ ExtOf(pv[q].fileKey) = S_cssExt
    /\ pv[p].upstreamType = "application/octet-stream"
    /\ pv[q].upstreamType = "text/html; charset=utf-8"
    /\ pv[p].res.contentType = "text/css; charset=utf-8"
    /\ pv[q].res.contentType = "text/css; charset=utf-8"

\* C19: when the storage backend answers with 401 or 403, the upstream body
\* is not streamed; the client gets an error status and an error payload
\* that carries the signed URL that was tried.
C19_UpstreamDeniedIsError ==
  \A p \in Procs :
    pv[p].upstream \in {401, 403} =>
      /\ ~Streamed(pv[p])
      /\ pv[p].res.status >= 400
      /\ pv[p].res.body = "error"
      /\ pv[p].res.url = pv[p].signedUrl

\* C20: a preview request during which the connection to the storage
\* backend failed ends with a single 500 response carrying an error payload,
\* and no 200 response was started for it.
C20_ConnectionFailureIs500 ==
  \A p \in Procs :
    pv[p].failed =>
      /\ pv[p].pc = "done"
      /\ pv[p].res.status = 500
      /\ pv[p].res.body = "error"
      /\ pv[p].res.sent = 1

----------------------------------------------------------------------------
(* URL signing                                                             *)

\* `http://${bucket}.${zone}.qiniucs.com`, the canonical storage origin
CanonicalOrigin(e) == S_http \o DefaultDomain(getQiniuConfig(e))

\* C21: every preview request signs a string that starts with the canonical
\* storage origin (bucket.zone.qiniucs.com), so a configured custom domain
\* never enters the signed input, and without a custom domain the signed URL
\* itself starts with the canonical origin.
C21_SignedAgainstCanonicalDomain ==
  \A p \in Procs :
    pv[p].pc # "idle" =>
      /\ StartsWith(pv[p].signed, CanonicalOrigin(env) \o S_slash)
      /\ IndexOf(pv[p].signed, DomainValue) = 0
      /\ ~Truthy(env.QINIU_DOMAIN) =>
           StartsWith(pv[p].signedUrl, CanonicalOrigin(env) \o S_slash)

\* C22: the signed URL of every preview request carries ?e=<request time in
\* whole seconds + 3600> followed by &token=<access key>:<signature>, the
\* signed string ends with the resolved key and that expiry, and the URL is
\* neither the URL signed for a request made at another second nor an
\* indexUrl stored in the history.
C22_PreviewUrlSignedFresh ==
  \A p \in Procs :
    pv[p].pc # "idle" =>
      LET expiry == ToDec((pv[p].at \div 1000) + HOUR_SECONDS)
          tail == S_slash \o pv[p].fileKey \o S_e \o expiry IN
      /\ EndsWith(pv[p].signed, tail)
      /\ StartsWith(pv[p].signedUrl,
                    pv[p].signed \o S_token \o env.QINIU_ACCESS_KEY \o S_colon)
      /\ Len(pv[p].signedUrl) >
           Len(pv[p].signed \o S_token \o env.QINIU_ACCESS_KEY \o S_colon)
      /\ \A q \in Procs :
           (pv[q].pc # "idle" /\ pv[q].at \div 1000 # pv[p].at \div 1000) =>
             pv[q].signedUrl # pv[p].signedUrl
      /\ \A i \in 1..Len(file.records) :
           file.records[i].indexUrl # pv[p].signedUrl

\* two requests for the same key, made a second apart, with different URLs
C22_Witness ==
  \E p, q \in Procs :
    /\ pv[p].pc # "idle" /\ pv[q].pc # "idle"
    /\ pv[p].fileKey = pv[q].fileKey
    /\ pv[p].at = T0 /\ pv[q].at = T0 + TickMs
    /\ pv[p].signedUrl # pv[q].signedUrl
    /\ Len(file.records) > 0

----------------------------------------------------------------------------
(* Properties of readDirRecursive                                          *)

RECURSIVE CountFiles(_)
\* number of files below a directory with the given entries
CountFiles(entries) ==
  IF entries = <<>> THEN 0
  ELSE (IF Head(entries).isDirectory THEN CountFiles(Head(entries).entries) ELSE 1)
         + CountFiles(Tail(entries))

\* C23: an enumeration that returned has exactly one entry per file of the
\* tree (none for directories, an empty directory adds nothing), all with
\* different relative paths, and no relative path contains a backslash,
\* whichever the host's path separator is.
C23_EnumeratorCountsAndSlashes ==
  \A p \in Procs :
    rd.run[p].outcome = "returned" =>
      LET files == rd.run[p].files IN
      /\ Len(files) = CountFiles(rd.tree)
      /\ Cardinality({ files[i].relativePath : i \in 1..Len(files) }) = Len(files)
      /\ \A i \in 1..Len(files) : ~Includes(files[i].relativePath, "\\")

----------------------------------------------------------------------------
(* Properties of the deploy-to-preview round trip                          *)

\* C24: a preview request for the path of the previewUrl that a successful
\* deployToQiniu returned resolves to dirName + '/index.html', the key under
\* which the deployment uploads its index.html, and a streamed response has
\* content type text/html; for every company name, with or without a '.'.
C24_DeployPreviewRoundTrip ==
  \A p, q \in Procs :
    ( /\ dp[q].outcome = "returned"
      /\ pv[p].pc # "idle"
      /\ pv[p].path = ParamPath(dp[q].result.previewUrl) ) =>
      /\ pv[p].fileKey = dp[q].result.dirName \o S_slash \o S_indexHtml
      /\ pv[p].fileKey = RemotePath(dp[q].dirName, 1)
      /\ Streamed(pv[p]) => pv[p].res.contentType = "text/html; charset=utf-8"

----------------------------------------------------------------------------
(* Properties of POST /api/generate: recording                             *)

\* the request of p has called historyService.saveRecord
CalledSaveRecord(p) == "save" \in rq[p].did

\* C25: a POST /api/generate request calls saveRecord only after its deploy
\* step has returned (a qiniu request: after deployToQiniu returned); a
\* request whose deploy threw (configuration, enumeration) or whose earlier
\* step threw ends with status 500 without having called saveRecord; and
\* the history file changes only through the write of a request that did.
C25_RecordOnlyAfterDeploy ==
  [][ /\ \A p \in Procs :
           /\ (CalledSaveRecord(p)' /\ rq'[p].deployTarget = "qiniu") =>
                dp'[p].outcome = "returned"
           /\ (rq'[p].pc = "done" /\ dp'[p].outcome = "threw") =>
                rq'[p].res.status = 500
           /\ rq'[p].res.status = 500 =>
                ~CalledSaveRecord(p)' /\ hs'[p].op # "saveRecord"
      /\ file' # file =>
           \E p \in Procs :
             /\ hs[p].pc = "writeFile" /\ hs[p].op = "saveRecord"
             /\ CalledSaveRecord(p)
             /\ rq[p].deployTarget = "qiniu" => dp[p].outcome = "returned" ]_vars

\* one request failed in configuration validation or enumeration and was
\* answered 500 with the history file as it was, while another request,
\* whose deploy returned, has saved its record
C25_Witness ==
  \E p, q \in Procs :
    /\ rq[p].pc = "done" /\ rq[p].res.status = 500
    /\ dp[p].outcome = "threw" /\ dp[p].error \in {"NO_BUCKET", "READDIR"}
    /\ ~CalledSaveRecord(p)
    /\ \/ dp[p].error = "NO_BUCKET" /\ file.records = <<>>
       \/ /\ rq[q].pc = "done" /\ rq[q].res.status = 200
          /\ dp[q].outcome = "returned" /\ CalledSaveRecord(q)

----------------------------------------------------------------------------
(* Properties of checkQiniuConfig                                          *)

\* C26: the qiniu part of a health response holds booleans only, each flag
\* tells whether its setting is present, and 'configured' is true exactly
\* when access key, secret key and bucket are all present, whether or not a
\* custom domain is set.
C26_ConfigFlagsOnly ==
  \A p \in Procs :
    hl[p].answered =>
      LET q == hl[p].qiniu IN
      /\ \A f \in DOMAIN q : q[f] \in BOOLEAN
      /\ q.accessKey = (env.QINIU_ACCESS_KEY # Undefined)
      /\ q.secretKey = (env.QINIU_SECRET_KEY # Undefined)
      /\ q.bucket = (env.QINIU_BUCKET # Undefined)
      /\ q.domain = (env.QINIU_DOMAIN # Undefined)
      /\ q.configured = ( /\ env.QINIU_ACCESS_KEY # Undefined
                          /\ env.QINIU_SECRET_KEY # Undefined
                          /\ env.QINIU_BUCKET # Undefined )

\* a health response of a server with keys and bucket but no custom domain
C26_Witness ==
  \E p \in Procs :
    /\ hl[p].answered
    /\ env.QINIU_DOMAIN = Undefined
    /\ hl[p].qiniu.configured /\ ~hl[p].qiniu.domain

----------------------------------------------------------------------------
(* Properties of generate requests followed by deletes                     *)

\* the DELETE handler of p answers in this step, after a teardown that
\* deleted every key it listed
DeleteCompletes(p) ==
  /\ dl[p].pc # "done" /\ dl'[p].pc = "done"
  /\ dl[p].teardowns # <<>>
  /\ TornDownCleanly(td[p])

\* C27: when a DELETE /api/history/:id request that tore down its record's
\* qiniuDir answers, no record left in the store has that qiniuDir while
\* no object is stored under it.
C27_NoRecordOnTornDownPrefix ==
  [][ \A p \in Procs :
        DeleteCompletes(p) =>
          \A i \in 1..Len(file'.records) :
            file'.records[i].qiniuDir = dl[p].record.qiniuDir =>
              UnderPrefix(bucket', dl[p].record.qiniuDir) # {} ]_vars

----------------------------------------------------------------------------
(* Properties of concurrent generate requests                              *)

\* C28: when no request sets forceRegenerate, the history file never holds
\* two records with the same companyName and deployTarget 'qiniu', and no
\* two requests upload the same site directory.
C28_NoDuplicateSite ==
  /\ \A i, j \in 1..Len(file.records) :
       ( /\ i # j
         /\ file.records[i].deployTarget = "qiniu"
         /\ file.records[j].deployTarget = "qiniu" ) =>
         file.records[i].companyName # file.records[j].companyName
  /\ \A p, q \in Procs :
       (p # q /\ dp[p].enumerated /\ dp[q].enumerated) =>
         dp[p].dirName # dp[q].dirName

----------------------------------------------------------------------------
(* Properties of DELETE /api/history/:id: teardown failures                *)

\* the deleteFromQiniu call of p's DELETE handler rejected
TeardownRejected(p) == dl[p].teardowns # <<>> /\ td[p].outcome = "threw"

\* C29: a DELETE handler whose deleteFromQiniu call rejected (listing error,
\* batch error, incomplete configuration) goes on to call deleteRecord for
\* its id, the write of that call leaves no record with the id in the
\* history file, and the handler answers 200.
C29_TeardownFailureDoesNotBlock ==
  [][ \A p \in Procs :
        TeardownRejected(p) =>
          /\ (dl[p].pc = "teardown" /\ dl'[p].pc # "teardown") =>
               /\ dl'[p].pc = "deleteRecord"
               /\ hs'[p].op = "deleteRecord" /\ hs'[p].id = dl[p].id
          /\ (hs[p].pc = "writeFile" /\ hs'[p].pc # "writeFile") =>
               dl[p].id \notin IdsOf(file'.records)
          /\ dl'[p].pc = "done" => dl'[p].status = 200 ]_vars

\* a DELETE whose teardown failed in the batch call was answered 200 and
\* the record is gone from the store, its objects still in the bucket
C29_Witness ==
  \E p \in Procs :
    /\ dl[p].pc = "done" /\ dl[p].status = 200
    /\ dl[p].found /\ TeardownRejected(p) /\ td[p].error = "BATCH"
    /\ dl[p].id \notin IdsOf(file.records)
    /\ UnderPrefix(bucket, dl[p].record.qiniuDir) # {}

----------------------------------------------------------------------------
(* Properties of the preview proxy: termination                            *)

\* the handler of p has settled and its response is complete
PreviewEnded(p) == pv[p].pc = "done" /\ pv[p].res.body \in {"error", "stream"}

\* C30: every preview request that reached its upstream fetch eventually
\* has its handler settled and its client response ended, whatever the
\* upstream connection does, and no response is sent more than once.
C30_PreviewTerminates ==
  /\ \A p \in Procs : (pv[p].pc = "fetch") ~> PreviewEnded(p)
  /\ [](\A p \in Procs : pv[p].res.sent <= 1)

====
